---------------------------- MODULE Spec2Model ----------------------------
(***************************************************************************)
(* A model of the tree-walking evaluator of the `seed` scripting language  *)
(* (src/src/eval): the value model, the scope stack, the binder and the    *)
(* statement and expression evaluators.                                    *)
(*                                                                         *)
(* The evaluator is a set of mutually recursive Rust functions that pass   *)
(* `&mut ScopeStack` and share `Arc<Mutex<..>>` handles.  Here the shared  *)
(* storage is an explicit heap (a sequence of cells; a handle is an index  *)
(* into it) that every function receives and returns, together with the   *)
(* standard output, in a machine record `m`.  A function of the source     *)
(* that returns `Result<T>` becomes an operator that returns a record      *)
(* [ok, m, v, err]: `v` is the `T` when `ok`, `err` the error chain (outer *)
(* context first) otherwise.                                               *)
(*                                                                         *)
(* Strings (values, variable names, object keys) are sequences of bytes.   *)
(***************************************************************************)
EXTENDS Integers, Sequences, FiniteSets, TLC

(***************************************************************************)
(* Bounds of the model.                                                    *)
(***************************************************************************)
\* the number of top-level statements a run of the program evaluates
MaxStmts == 5

(***************************************************************************)
(* Byte strings.                                                           *)
(***************************************************************************)
s_underscore == <<95>>
s_this == <<116, 104, 105, 115>>
s_print == <<112, 114, 105, 110, 116>>
s_a == <<97>>
s_b == <<98>>
s_c == <<99>>
s_d == <<100>>
s_f == <<102>>
s_g == <<103>>
s_i == <<105>>
s_j == <<106>>
s_k == <<107>>
s_n == <<110>>
s_o == <<111>>
s_p == <<112>>
s_q == <<113>>
s_r == <<114>>
s_s == <<115>>
s_t == <<116>>
s_x == <<120>>
s_y == <<121>>
s_z == <<122>>
s_xs == <<120, 115>>
s_ys == <<121, 115>>
s_rest == <<114, 101, 115, 116>>
s_zs == <<122, 115>>
s_ws == <<119, 115>>
s_oo == <<111, 111>>
s_step == <<115, 116, 101, 112>>
s_make_counter == <<109, 97, 107, 101, 95, 99, 111, 117, 110, 116, 101, 114>>

(***************************************************************************)
(* Values (eval/value.rs).  `Value` is a tagged union; List, Object and    *)
(* Func hold a handle to shared storage.  `SourcedValue` pairs a value     *)
(* with the optional value it was read from.                               *)
(***************************************************************************)
NoSource == [t |-> "NoSource"]

Value_Null == [t |-> "Null"]
Value_Bool(b) == [t |-> "Bool", b |-> b]
Value_Int(n) == [t |-> "Int", n |-> n]
Value_Str(s) == [t |-> "Str", s |-> s]
Value_List(ref) == [t |-> "List", ref |-> ref]
Value_Object(ref) == [t |-> "Object", ref |-> ref]
Value_Func(ref) == [t |-> "Func", ref |-> ref]
Value_BuiltinFunc(name) == [t |-> "BuiltinFunc", name |-> name]

new_val_ref_with_no_source(v) == [v |-> v, source |-> NoSource]
new_val_ref_with_source(v, source) == [v |-> v, source |-> source]

new_null == new_val_ref_with_no_source(Value_Null)
new_bool(b) == new_val_ref_with_no_source(Value_Bool(b))
new_int(n) == new_val_ref_with_no_source(Value_Int(n))
new_str(s) == new_val_ref_with_no_source(Value_Str(s))
new_built_in_func(name) == new_val_ref_with_no_source(Value_BuiltinFunc(name))

(***************************************************************************)
(* Results and errors (eval/error.rs).  An error is the chain of its       *)
(* causes, outermost first; `.context(X)` puts X in front.                 *)
(***************************************************************************)
Ok(m, v) == [ok |-> TRUE, m |-> m, v |-> v, err |-> <<>>]
Err(m, e) == [ok |-> FALSE, m |-> m, v |-> new_null, err |-> e]

\* one error variant; `info` holds the variant's fields
Error(name, info) == <<[e |-> name, line |-> 0, col |-> 0, info |-> info]>>

AtLoc(source, loc) ==
    <<[e |-> "AtLoc", line |-> loc[1], col |-> loc[2], info |-> <<>>]>> \o source

new_loc_err(m, source, loc) == Err(m, AtLoc(source, loc))

context(r, name) ==
    IF r.ok THEN r ELSE [r EXCEPT !.err = Error(name, <<>>) \o @]

\* a context selector that carries fields of its own, such as `call_loc`
context_with(r, name, info) ==
    IF r.ok THEN r ELSE [r EXCEPT !.err = Error(name, info) \o @]

(***************************************************************************)
(* The heap: the storage behind every Arc<Mutex<..>> of the program.       *)
(***************************************************************************)
Alloc(m, cell) == [m EXCEPT !.heap = Append(@, cell)]
NextRef(m) == Len(m.heap) + 1
deref(m, ref) == m.heap[ref]

new_list(m, items) ==
    Ok(Alloc(m, [t |-> "List", items |-> items]),
       new_val_ref_with_no_source(Value_List(NextRef(m))))

new_object(m, props) ==
    Ok(Alloc(m, [t |-> "Object", props |-> props]),
       new_val_ref_with_no_source(Value_Object(NextRef(m))))

new_func(m, name, args, collect_args, stmts, closure) ==
    Ok(Alloc(m, [t |-> "Func", name |-> name, args |-> args,
                 collect_args |-> collect_args, stmts |-> stmts,
                 closure |-> closure]),
       new_val_ref_with_no_source(Value_Func(NextRef(m))))


(***************************************************************************)
(* Scope stack (eval/scope.rs).  A ScopeStack is a sequence of handles to  *)
(* frames; a frame maps a name to (value, location of its declaration).    *)
(***************************************************************************)
new_from_push(m, scopes, scope) ==
    [m |-> Alloc(m, [t |-> "Scope", vars |-> scope]),
     scopes |-> Append(scopes, NextRef(m))]

is_compound_type(v) == v.t \in {"Object", "List"}

\* #[derive(Clone)] on Value: scalars by value, handles by reference count
clone(v) == v

\* a `copy` that gives a list or an object storage of its own
copy_unshared(m, v) ==
    IF is_compound_type(v.v)
    THEN Ok(Alloc(m, deref(m, v.v.ref)),
            [v |-> [v.v EXCEPT !.ref = NextRef(m)], source |-> v.source])
    ELSE Ok(m, [v |-> clone(v.v), source |-> v.source])

copy(m, v) ==
    LET new_val_ref == IF is_compound_type(v.v) THEN v.v ELSE clone(v.v)
    IN  IF v.source # NoSource
        THEN Ok(m, new_val_ref_with_source(new_val_ref, v.source))
        ELSE Ok(m, new_val_ref_with_no_source(new_val_ref))

\* `*slot = copy(v)`: the operator yields the value the caller stores in the slot
set_val_ref(m, v) == copy(m, v)

\* a `declare` that overwrites an existing binding of the topmost frame
declare_overwrites(m, scopes, name, loc, v) ==
    LET cur == scopes[Len(scopes)]
        cur_scope == deref(m, cur).vars
        new_v == copy(m, v)
    IN  [ok |-> TRUE,
         m |-> [new_v.m EXCEPT !.heap[cur].vars =
                    (name :> [v |-> new_v.v, loc |-> loc]) @@ cur_scope],
         prev |-> <<0, 0>>]

declare(m, scopes, name, loc, v) ==
    LET cur == scopes[Len(scopes)]
        cur_scope == deref(m, cur).vars
        new_v == copy(m, v)
    IN  IF name \in DOMAIN cur_scope
        THEN [ok |-> FALSE, m |-> m, prev |-> cur_scope[name].loc]
        ELSE [ok |-> TRUE,
              m |-> [new_v.m EXCEPT !.heap[cur].vars =
                         (name :> [v |-> new_v.v, loc |-> loc]) @@ cur_scope],
              prev |-> <<0, 0>>]

\* `for scope in self.0.iter().rev()`: the index of the innermost frame that
\* holds `name`, searching from frame i downwards; 0 if none does
RECURSIVE find_scope(_, _, _, _)
find_scope(m, scopes, name, i) ==
    IF i = 0 THEN 0
    ELSE IF name \in DOMAIN deref(m, scopes[i]).vars THEN i
    ELSE find_scope(m, scopes, name, i - 1)

get(m, scopes, name) ==
    LET i == find_scope(m, scopes, name, Len(scopes))
    IN  IF i = 0 THEN [some |-> FALSE, v |-> new_null]
        ELSE [some |-> TRUE, v |-> deref(m, scopes[i]).vars[name].v]

\* an assign that writes the outermost frame that holds the name
assign_outermost(m, scopes, name, v) ==
    LET holders == {i \in 1 .. Len(scopes) :
                       name \in DOMAIN deref(m, scopes[i]).vars}
        i == IF holders = {} THEN 0
             ELSE CHOOSE h \in holders : \A g \in holders : h <= g
        new_v == set_val_ref(m, v)
    IN  IF i = 0 THEN [ok |-> FALSE, m |-> m]
        ELSE [ok |-> TRUE,
              m |-> [new_v.m EXCEPT !.heap[scopes[i]].vars[name].v = new_v.v]]

assign(m, scopes, name, v) ==
    LET i == find_scope(m, scopes, name, Len(scopes))
        new_v == set_val_ref(m, v)
    IN  IF i = 0 THEN [ok |-> FALSE, m |-> m]
        ELSE [ok |-> TRUE,
              m |-> [new_v.m EXCEPT !.heap[scopes[i]].vars[name].v = new_v.v]]

(***************************************************************************)
(* Strings and keys.                                                       *)
(***************************************************************************)
\* the order of String keys in a BTreeMap: lexicographic on the bytes
RECURSIVE str_lt(_, _)
str_lt(a, b) ==
    IF Len(b) = 0 THEN FALSE
    ELSE IF Len(a) = 0 THEN TRUE
    ELSE IF a[1] # b[1] THEN a[1] < b[1]
    ELSE str_lt(Tail(a), Tail(b))

\* the keys of a map whose iterator yields the greatest key first
RECURSIVE sorted_keys_descending(_)
sorted_keys_descending(keys) ==
    IF keys = {} THEN <<>>
    ELSE LET greatest == CHOOSE k \in keys : \A o \in keys \ {k} : str_lt(o, k)
         IN  <<greatest>> \o sorted_keys_descending(keys \ {greatest})

\* the keys of a BTreeMap in the order its iterator yields them
RECURSIVE sorted_keys(_)
sorted_keys(keys) ==
    IF keys = {} THEN <<>>
    ELSE LET least == CHOOSE k \in keys : \A o \in keys \ {k} : str_lt(k, o)
         IN  <<least>> \o sorted_keys(keys \ {least})

\* String::from_utf8 on the byte ranges the model uses: ASCII, and two-byte
\* sequences (0xC2..0xDF followed by a continuation byte 0x80..0xBF)
RECURSIVE from_utf8_ok(_)
from_utf8_ok(s) ==
    IF Len(s) = 0 THEN TRUE
    ELSE IF s[1] < 128 THEN from_utf8_ok(Tail(s))
    ELSE IF /\ s[1] >= 194 /\ s[1] <= 223 /\ Len(s) >= 2
            /\ s[2] >= 128 /\ s[2] <= 191
         THEN from_utf8_ok(Tail(Tail(s)))
    ELSE FALSE

(***************************************************************************)
(* Binary operations (eval/mod.rs, apply_binary_operation and eq).         *)
(***************************************************************************)
\* the width the model gives the language's signed integers (i64 in the source)
IntBits == 15
I64_MAX == 2 ^ (IntBits - 1) - 1
I64_MIN == 0 - 2 ^ (IntBits - 1)

Some(x) == [some |-> TRUE, x |-> x]
None == [some |-> FALSE, x |-> 0]

in_i64(n) == n >= I64_MIN /\ n <= I64_MAX
checked_add(a, b) == IF in_i64(a + b) THEN Some(a + b) ELSE None
checked_sub(a, b) == IF in_i64(a - b) THEN Some(a - b) ELSE None
checked_mul(a, b) == IF in_i64(a * b) THEN Some(a * b) ELSE None

abs(n) == IF n < 0 THEN 0 - n ELSE n
\* Rust's `/` and `%` on integers truncate towards zero
trunc_div(a, b) ==
    IF (a < 0) = (b < 0) THEN abs(a) \div abs(b) ELSE 0 - (abs(a) \div abs(b))
trunc_rem(a, b) == a - b * trunc_div(a, b)
\* a division that only rejects a zero divisor
checked_div_zero_only(a, b) == IF b = 0 THEN None ELSE Some(trunc_div(a, b))

checked_div(a, b) ==
    IF b = 0 \/ (a = I64_MIN /\ b = 0 - 1) THEN None ELSE Some(trunc_div(a, b))

ref_eq(xs, ys) == xs.ref = ys.ref

\* `eq` returns None if `lhs` and `rhs` are of different types
RECURSIVE eq(_, _, _)
RECURSIVE eq_list_items(_, _, _, _)
RECURSIVE eq_object_props(_, _, _, _)
eq_list_items(m, xs, ys, i) ==
    IF i > Len(xs) THEN Some(TRUE)
    ELSE LET equal == eq(m, xs[i].v, ys[i].v)
         IN  IF ~equal.some THEN None
             ELSE IF ~equal.x THEN Some(FALSE)
             ELSE eq_list_items(m, xs, ys, i + 1)

eq_object_props(m, keys, xs, ys) ==
    IF Len(keys) = 0 THEN Some(TRUE)
    ELSE LET k == keys[1]
         IN  IF k \notin DOMAIN ys THEN Some(FALSE)
             ELSE LET equal == eq(m, xs[k].v, ys[k].v)
                  IN  IF ~equal.some THEN None
                      ELSE IF ~equal.x THEN Some(FALSE)
                      ELSE eq_object_props(m, Tail(keys), xs, ys)

eq(m, lhs, rhs) ==
    CASE lhs.t = "Null" /\ rhs.t = "Null" -> Some(TRUE)
      [] lhs.t = "Bool" /\ rhs.t = "Bool" -> Some(lhs.b = rhs.b)
      [] lhs.t = "Int" /\ rhs.t = "Int" -> Some(lhs.n = rhs.n)
      [] lhs.t = "Str" /\ rhs.t = "Str" -> Some(lhs.s = rhs.s)
      [] lhs.t = "List" /\ rhs.t = "List" ->
            LET xs == deref(m, lhs.ref).items
                ys == deref(m, rhs.ref).items
            IN  IF ref_eq(lhs, rhs) THEN Some(TRUE)
                ELSE IF Len(xs) # Len(ys) THEN Some(FALSE)
                ELSE eq_list_items(m, xs, ys, 1)
      [] lhs.t = "Object" /\ rhs.t = "Object" ->
            LET xs == deref(m, lhs.ref).props
                ys == deref(m, rhs.ref).props
            IN  IF ref_eq(lhs, rhs) THEN Some(TRUE)
                ELSE IF Cardinality(DOMAIN xs) # Cardinality(DOMAIN ys)
                     THEN Some(FALSE)
                ELSE eq_object_props(m, sorted_keys(DOMAIN xs), xs, ys)
      [] OTHER -> None

new_invalid_op_types(op, op_loc, lhs, rhs) ==
    AtLoc(Error("InvalidOpTypes", <<op, lhs.t, rhs.t>>), op_loc)

new_int_overflow(op, op_loc, lhs, rhs) ==
    AtLoc(Error("IntOverflow", <<op, lhs, rhs>>), op_loc)

\* the outcome of a Rust panic: the process aborts, no Result is returned
Panic(m) == Err(m, Error("Panic", <<>>))

apply_binary_operation(m, op, op_loc, lhs, rhs) ==
    LET both(t) == lhs.t = t /\ rhs.t = t
        invalid == Err(m, new_invalid_op_types(op, op_loc, lhs, rhs))
        checked(r) ==
            IF r.some THEN Ok(m, Value_Int(r.x))
            ELSE Err(m, new_int_overflow(op, op_loc, lhs.n, rhs.n))
    IN  CASE op \in {"Eq", "Ne"} ->
               LET v == eq(m, lhs, rhs)
               IN  IF v.some
                   THEN Ok(m, Value_Bool(IF op = "Eq" THEN v.x ELSE ~v.x))
                   ELSE invalid
          [] op = "Sum" ->
               IF both("Int") THEN checked(checked_add(lhs.n, rhs.n))
               ELSE IF both("Str") THEN Ok(m, Value_Str(lhs.s \o rhs.s))
               ELSE IF both("List")
                    THEN LET a == deref(m, lhs.ref).items
                             b == deref(m, rhs.ref).items
                         IN  Ok(Alloc(m, [t |-> "List", items |-> a \o b]),
                                Value_List(NextRef(m)))
               ELSE invalid
          [] op \in {"Sub", "Mul", "Div", "Mod"} ->
               IF both("Int")
               THEN CASE op = "Sub" -> checked(checked_sub(lhs.n, rhs.n))
                      [] op = "Mul" -> checked(checked_mul(lhs.n, rhs.n))
                      [] op = "Div" -> checked(checked_div(lhs.n, rhs.n))
                      [] op = "Mod" ->
                           IF rhs.n = 0 \/ (lhs.n = I64_MIN /\ rhs.n = 0 - 1)
                           THEN Panic(m)
                           ELSE Ok(m, Value_Int(trunc_rem(lhs.n, rhs.n)))
               ELSE invalid
          [] op \in {"And", "Or"} ->
               IF both("Bool")
               THEN Ok(m, Value_Bool(IF op = "And" THEN lhs.b /\ rhs.b
                                     ELSE lhs.b \/ rhs.b))
               ELSE invalid
          [] op \in {"Gt", "Gte", "Lt", "Lte"} ->
               IF both("Int")
               THEN Ok(m, Value_Bool(CASE op = "Gt" -> lhs.n > rhs.n
                                       [] op = "Gte" -> lhs.n >= rhs.n
                                       [] op = "Lt" -> lhs.n < rhs.n
                                       [] op = "Lte" -> lhs.n <= rhs.n))
               ELSE invalid

(***************************************************************************)
(* The abstract syntax tree (ast.rs).  Every expression carries its        *)
(* location `loc` = <<line, col>>.                                         *)
(***************************************************************************)
NoExpr == [k |-> "NoExpr"]

E_Null(loc) == [k |-> "Null", loc |-> loc]
E_Bool(b, loc) == [k |-> "Bool", b |-> b, loc |-> loc]
E_Int(n, loc) == [k |-> "Int", n |-> n, loc |-> loc]
E_Str(s, loc) == [k |-> "Str", s |-> s, loc |-> loc]
E_Var(name, loc) == [k |-> "Var", name |-> name, loc |-> loc]
E_BinaryOp(op, op_loc, lhs, rhs, loc) ==
    [k |-> "BinaryOp", op |-> op, op_loc |-> op_loc, lhs |-> lhs, rhs |-> rhs,
     loc |-> loc]
E_List(items, collect, loc) ==
    [k |-> "List", items |-> items, collect |-> collect, loc |-> loc]
E_Object(props, loc) == [k |-> "Object", props |-> props, loc |-> loc]
E_Index(expr, location, loc) ==
    [k |-> "Index", expr |-> expr, location |-> location, loc |-> loc]
E_RangeIndex(expr, start, end, loc) ==
    [k |-> "RangeIndex", expr |-> expr, start |-> start, end |-> end, loc |-> loc]
E_Range(start, end, loc) ==
    [k |-> "Range", start |-> start, end |-> end, loc |-> loc]
E_Prop(expr, name, type_prop, loc) ==
    [k |-> "Prop", expr |-> expr, name |-> name, type_prop |-> type_prop,
     loc |-> loc]
E_Func(args, collect_args, stmts, loc) ==
    [k |-> "Func", args |-> args, collect_args |-> collect_args,
     stmts |-> stmts, loc |-> loc]
E_Call(func, args, loc) == [k |-> "Call", func |-> func, args |-> args, loc |-> loc]

ListItem(expr, is_spread) == [expr |-> expr, is_spread |-> is_spread]
PropItem_Pair(name, value) == [k |-> "Pair", name |-> name, value |-> value]
PropItem_Single(expr, is_spread, collect) ==
    [k |-> "Single", expr |-> expr, is_spread |-> is_spread, collect |-> collect]

Branch(cond, stmts) == [cond |-> cond, stmts |-> stmts]
NoBlock == [some |-> FALSE, stmts |-> <<>>]
SomeBlock(stmts) == [some |-> TRUE, stmts |-> stmts]

S_Block(block) == [k |-> "Block", block |-> block]
S_Expr(expr) == [k |-> "Expr", expr |-> expr]
S_Declare(lhs, rhs) == [k |-> "Declare", lhs |-> lhs, rhs |-> rhs]
S_Assign(lhs, rhs) == [k |-> "Assign", lhs |-> lhs, rhs |-> rhs]
S_OpAssign(lhs, op, op_loc, rhs) ==
    [k |-> "OpAssign", lhs |-> lhs, op |-> op, op_loc |-> op_loc, rhs |-> rhs]
S_If(branches, else_stmts) ==
    [k |-> "If", branches |-> branches, else_stmts |-> else_stmts]
S_While(cond, stmts) == [k |-> "While", cond |-> cond, stmts |-> stmts]
S_For(lhs, iter, stmts) == [k |-> "For", lhs |-> lhs, iter |-> iter, stmts |-> stmts]
S_Break(loc) == [k |-> "Break", loc |-> loc]
S_Continue(loc) == [k |-> "Continue", loc |-> loc]
S_Func(name, loc, args, collect_args, stmts) ==
    [k |-> "Func", name |-> name, loc |-> loc, args |-> args,
     collect_args |-> collect_args, stmts |-> stmts]
S_Return(loc, expr) == [k |-> "Return", loc |-> loc, expr |-> expr]

\* the statement evaluator's control-flow outcome
Escape_None == [k |-> "None", loc |-> <<0, 0>>, value |-> new_null]
Escape_Break(loc) == [k |-> "Break", loc |-> loc, value |-> new_null]
Escape_Continue(loc) == [k |-> "Continue", loc |-> loc, value |-> new_null]
Escape_Return(value, loc) == [k |-> "Return", loc |-> loc, value |-> value]

(***************************************************************************)
(* Built-in functions (builtins/fns.rs, builtins/type_functions.rs).       *)
(***************************************************************************)
b_null == <<60, 110, 117, 108, 108, 62>>
b_true == <<116, 114, 117, 101>>
b_false == <<102, 97, 108, 115, 101>>
b_type == <<116, 121, 112, 101>>
b_len == <<108, 101, 110>>
b_newline == 10
b_space == 32
b_indent == <<32, 32, 32, 32>>

\* format!("{}", n) for an i64
RECURSIVE render_nat(_)
render_nat(n) ==
    IF n < 10 THEN <<48 + n>> ELSE Append(render_nat(n \div 10), 48 + (n % 10))
render_int(n) == IF n < 0 THEN <<45>> \o render_nat(0 - n) ELSE render_nat(n)

\* rendered_item.replace('\n', "\n    ")
RECURSIVE indent_lines(_)
indent_lines(s) ==
    IF Len(s) = 0 THEN <<>>
    ELSE IF s[1] = b_newline THEN <<b_newline>> \o b_indent \o indent_lines(Tail(s))
    ELSE <<s[1]>> \o indent_lines(Tail(s))

render_type(v) ==
    CASE v.t = "Null" -> <<110, 117, 108, 108>>
      [] v.t = "Bool" -> <<98, 111, 111, 108>>
      [] v.t = "Int" -> <<105, 110, 116>>
      [] v.t = "Str" -> <<115, 116, 114, 105, 110, 103>>
      [] v.t = "List" -> <<108, 105, 115, 116>>
      [] v.t = "Object" -> <<111, 98, 106, 101, 99, 116>>
      [] v.t \in {"BuiltinFunc", "Func"} -> <<102, 117, 110, 99>>

RECURSIVE render(_, _)
RECURSIVE render_items(_, _, _)
RECURSIVE render_props(_, _, _)
render_items(m, items, i) ==
    IF i > Len(items) THEN Ok(m, <<>>)
    ELSE LET rendered_item == render(m, items[i])
             rest == render_items(m, items, i + 1)
         IN  IF ~rendered_item.ok THEN rendered_item
             ELSE IF ~rest.ok THEN rest
             ELSE Ok(m, b_indent \o indent_lines(rendered_item.v)
                        \o <<44, b_newline>> \o rest.v)

render_props(m, props, keys) ==
    IF Len(keys) = 0 THEN Ok(m, <<>>)
    ELSE LET rendered_prop == render(m, props[keys[1]])
             rest == render_props(m, props, Tail(keys))
         IN  IF ~rendered_prop.ok THEN rendered_prop
             ELSE IF ~rest.ok THEN rest
             ELSE Ok(m, b_indent \o <<34>> \o keys[1] \o <<34, 58, b_space>>
                        \o indent_lines(rendered_prop.v)
                        \o <<44, b_newline>> \o rest.v)

render(m, v) ==
    CASE v.v.t = "Null" -> Ok(m, b_null)
      [] v.v.t = "Bool" -> Ok(m, IF v.v.b THEN b_true ELSE b_false)
      [] v.v.t = "Int" -> Ok(m, render_int(v.v.n))
      [] v.v.t = "Str" ->
            IF from_utf8_ok(v.v.s) THEN Ok(m, v.v.s)
            ELSE Err(m, Error("BuiltinFuncErr", <<"utf8">>))
      [] v.v.t = "List" ->
            LET r == render_items(m, deref(m, v.v.ref).items, 1)
            IN  IF ~r.ok THEN r ELSE Ok(m, <<91, b_newline>> \o r.v \o <<93>>)
      [] v.v.t = "Object" ->
            LET props == deref(m, v.v.ref).props
                r == render_props(m, props, sorted_keys(DOMAIN props))
            IN  IF ~r.ok THEN r ELSE Ok(m, <<123, b_newline>> \o r.v \o <<125>>)
      [] v.v.t = "BuiltinFunc" ->
            \* <built-in function 'name'>
            Ok(m, <<60, 98, 117, 105, 108, 116, 45, 105, 110, 32, 102, 117, 110,
                    99, 116, 105, 111, 110, 32, 39>> \o v.v.name \o <<39, 62>>)
      [] v.v.t = "Func" ->
            \* <function 'Some("name")'> or <function 'None'>
            LET name == deref(m, v.v.ref).name
            IN  Ok(m, <<60, 102, 117, 110, 99, 116, 105, 111, 110, 32, 39>>
                      \o (IF name.some
                          THEN <<83, 111, 109, 101, 40, 34>> \o name.x \o <<34, 41>>
                          ELSE <<78, 111, 110, 101>>)
                      \o <<39, 62>>)

assert_args(m, fn_name, exp_args, args) ==
    IF Len(args) # exp_args
    THEN Err(m, Error("BuiltinFuncErr", <<fn_name, exp_args, Len(args)>>))
    ELSE Ok(m, new_null)

assert_no_this(m, this) ==
    IF this = NoSource THEN Ok(m, new_null)
    ELSE Err(m, Error("Dev", <<"'this' shouldn't exist">>))

assert_this(m, this) ==
    IF this # NoSource THEN Ok(m, new_val_ref_with_no_source(this))
    ELSE Err(m, Error("Dev", <<"'this' doesn't exist">>))

assert_str(m, val_name, v) ==
    IF v.v.t = "Str"
    THEN IF from_utf8_ok(v.v.s) THEN Ok(m, v.v.s)
         ELSE Err(m, Error("BuiltinFuncErr", <<val_name>>))
    ELSE Err(m, Error("Dev", <<"dev err: expected 'string'">>))

print(m, this, args) ==
    LET a == context(assert_args(m, "print", 1, args), "AssertArgsFailed")
        t == context(assert_no_this(m, this), "AssertNoThisFailed")
        s == render(m, args[1])
    IN  IF ~a.ok THEN a
        ELSE IF ~t.ok THEN t
        ELSE IF ~s.ok THEN s
        ELSE Ok([m EXCEPT !.out = Append(@, s.v)], new_null)

str_len(m, this, vs) ==
    LET a == context(assert_args(m, "len", 0, vs), "AssertArgsFailed")
        t == context(assert_this(m, this), "AssertThisFailed")
        s == context(assert_str(m, "this", t.v), "AssertStrFailed")
    IN  IF ~a.ok THEN a
        ELSE IF ~t.ok THEN t
        ELSE IF ~s.ok THEN s
        ELSE Ok(m, new_int(Len(s.v)))

any_type(m, this, vs) ==
    LET a == context(assert_args(m, "type", 0, vs), "AssertArgsFailed")
        t == context(assert_this(m, this), "AssertThisFailed")
    IN  IF ~a.ok THEN a
        ELSE IF ~t.ok THEN t
        ELSE Ok(m, new_str(render_type(t.v.v)))

\* the names of the built-in functions: "print", "<type>->type", "str->len"
n_arrow_type == <<45, 62>> \o b_type
n_str_len == <<115, 116, 114, 45, 62>> \o b_len

\* the function pointer `f` a Value::BuiltinFunc carries, applied
call_builtin(m, name, this, args) ==
    IF name = s_print THEN print(m, this, args)
    ELSE IF name = n_str_len THEN str_len(m, this, args)
    ELSE any_type(m, this, args)

\* the type-namespace object of a value's type: property name -> built-in
type_functions(v) ==
    LET prefix == CASE v.t = "Bool" -> <<98, 111, 111, 108>>
                    [] v.t = "Int" -> <<105, 110, 116>>
                    [] v.t = "Str" -> <<115, 116, 114>>
                    [] v.t = "List" -> <<108, 105, 115, 116>>
                    [] v.t = "Object" -> <<111, 98, 106, 101, 99, 116>>
                    [] OTHER -> <<102, 117, 110, 99>>
        type_fn == b_type :> new_built_in_func(prefix \o n_arrow_type)
    IN  IF v.t = "Str"
        THEN (b_len :> new_built_in_func(n_str_len)) @@ type_fn
        ELSE type_fn

(***************************************************************************)
(* The expression evaluator (eval/mod.rs).                                 *)
(***************************************************************************)
\* The functions of the evaluator call each other through interp, defined
\* below once they all are: call_f(..) is the source's call f(..).
RECURSIVE interp(_)

call_eval_expr_to_index(m, scopes, expr) ==
    interp([fn |-> "eval_expr_to_index", a |-> <<m, scopes, expr>>])

call_eval_list_items(m, scopes, items, i, vals) ==
    interp([fn |-> "eval_list_items", a |-> <<m, scopes, items, i, vals>>])

call_eval_object_props(m, scopes, props, i, vals, loc) ==
    interp([fn |-> "eval_object_props", a |-> <<m, scopes, props, i, vals,
            loc>>])

call_eval_expr(m, scopes, expr) ==
    interp([fn |-> "eval_expr", a |-> <<m, scopes, expr>>])

call_bind_range_index(m, scopes, lhs_items, maybe_start, maybe_end, lhs_loc, rhs_items) ==
    interp([fn |-> "bind_range_index", a |-> <<m, scopes, lhs_items,
            maybe_start, maybe_end, lhs_loc, rhs_items>>])

call_bind_object_prop(m, scopes, names_in_binding, lhs, rhs, prop_name, prop_name_loc, bind_type) ==
    interp([fn |-> "bind_object_prop", a |-> <<m, scopes, names_in_binding,
            lhs, rhs, prop_name, prop_name_loc, bind_type>>])

call_bind_object_items(m, scopes, names_in_binding, lhs, rhs, bind_type, i, remaining_keys) ==
    interp([fn |-> "bind_object_items", a |-> <<m, scopes, names_in_binding,
            lhs, rhs, bind_type, i, remaining_keys>>])

call_bind_list_items(m, scopes, names_in_binding, lhs, collect, lhs_loc, rhs, bind_type, i) ==
    interp([fn |-> "bind_list_items", a |-> <<m, scopes, names_in_binding, lhs,
            collect, lhs_loc, rhs, bind_type, i>>])

call_bind_next(m, scopes, names_in_binding, lhs, rhs, bind_type) ==
    interp([fn |-> "bind_next", a |-> <<m, scopes, names_in_binding, lhs, rhs,
            bind_type>>])

call_eval_stmts_with_scope_stack(m, scopes, stmts) ==
    interp([fn |-> "eval_stmts_with_scope_stack", a |-> <<m, scopes, stmts>>])

call_eval_stmt(m, scopes, stmt) ==
    interp([fn |-> "eval_stmt", a |-> <<m, scopes, stmt>>])

RECURSIVE eval_call(_, _, _, _, _)
RECURSIVE eval_stmts(_, _, _, _)

\* the macro match_eval_expr!: evaluate, then match on the value
match_eval_expr(m, scopes, expr) ==
    context(call_eval_expr(m, scopes, expr), "EvalExprFailed")

eval_expr_to_str(m, scopes, descr, expr) ==
    LET value == match_eval_expr(m, scopes, expr)
    IN  IF ~value.ok THEN value
        ELSE IF value.v.v.t # "Str"
             THEN new_loc_err(value.m,
                      Error("IncorrectType", <<descr, "string", value.v.v.t>>),
                      expr.loc)
        ELSE IF ~from_utf8_ok(value.v.v.s)
             THEN new_loc_err(value.m,
                      Error("StringConstructionFailed", <<descr>>), expr.loc)
        ELSE Ok(value.m, value.v.v.s)

eval_expr_to_bool(m, scopes, descr, expr) ==
    LET value == match_eval_expr(m, scopes, expr)
    IN  IF ~value.ok THEN value
        ELSE IF value.v.v.t = "Bool" THEN Ok(value.m, value.v.v.b)
        ELSE new_loc_err(value.m,
                 Error("IncorrectType", <<descr, "bool", value.v.v.t>>), expr.loc)

eval_expr_to_i64(m, scopes, descr, expr) ==
    LET value == match_eval_expr(m, scopes, expr)
    IN  IF ~value.ok THEN value
        ELSE IF value.v.v.t = "Int" THEN Ok(value.m, value.v.v.n)
        ELSE new_loc_err(value.m,
                 Error("IncorrectType", <<descr, "int", value.v.v.t>>), expr.loc)

eval_expr_to_index(m, scopes, expr) ==
    LET index == context(eval_expr_to_i64(m, scopes, "index", expr),
                         "EvalIndexToI64Failed")
    IN  IF ~index.ok THEN index
        ELSE IF index.v < 0
             THEN new_loc_err(index.m, Error("NegativeIndex", <<index.v>>), expr.loc)
        ELSE index

\* `s.get(start .. end)` on a slice: None unless start <= end <= len
slice_get(xs, start, end) ==
    IF start <= end /\ end <= Len(xs) THEN Some(SubSeq(xs, start + 1, end))
    ELSE None

get_str_range_index(m, s, maybe_start, maybe_end) ==
    LET start == IF maybe_start.some THEN maybe_start.x ELSE 0
        end == IF maybe_end.some THEN maybe_end.x ELSE Len(s)
        vs == slice_get(s, start, end)
    IN  IF vs.some THEN Ok(m, new_str(vs.x))
        ELSE Err(m, Error("RangeOutOfStringBounds", <<start, end>>))

get_list_range_index(m, list, maybe_start, maybe_end) ==
    LET items == deref(m, list.ref).items
        start == IF maybe_start.some THEN maybe_start.x ELSE 0
        end == IF maybe_end.some THEN maybe_end.x ELSE Len(items)
        vs == slice_get(items, start, end)
    IN  IF vs.some THEN new_list(m, vs.x)
        ELSE Err(m, Error("RangeOutOfListBounds", <<start, end>>))

\* a BinaryOp whose `&&` and `||` leave the right operand alone when the left
\* one decides the result
eval_expr_BinaryOp_short_circuit(m, scopes, expr) ==
    LET lhs_val == context(call_eval_expr(m, scopes, expr.lhs), "EvalBinOpLhsFailed")
        rhs_val == context(call_eval_expr(lhs_val.m, scopes, expr.rhs),
                           "EvalBinOpRhsFailed")
        v == context(apply_binary_operation(rhs_val.m, expr.op, expr.op_loc,
                                            lhs_val.v.v, rhs_val.v.v),
                     "ApplyBinOpFailed")
    IN  IF ~lhs_val.ok THEN lhs_val
        ELSE IF lhs_val.v.v.t = "Bool"
                /\ ((expr.op = "And" /\ ~lhs_val.v.v.b)
                    \/ (expr.op = "Or" /\ lhs_val.v.v.b))
             THEN Ok(lhs_val.m, new_bool(lhs_val.v.v.b))
        ELSE IF ~rhs_val.ok THEN rhs_val
        ELSE IF ~v.ok THEN v
        ELSE Ok(v.m, new_val_ref_with_no_source(v.v))

eval_expr_BinaryOp(m, scopes, expr) ==
    LET lhs_val == context(call_eval_expr(m, scopes, expr.lhs), "EvalBinOpLhsFailed")
        rhs_val == context(call_eval_expr(lhs_val.m, scopes, expr.rhs),
                           "EvalBinOpRhsFailed")
        v == context(apply_binary_operation(rhs_val.m, expr.op, expr.op_loc,
                                            lhs_val.v.v, rhs_val.v.v),
                     "ApplyBinOpFailed")
    IN  IF ~lhs_val.ok THEN lhs_val
        ELSE IF ~rhs_val.ok THEN rhs_val
        ELSE IF ~v.ok THEN v
        ELSE Ok(v.m, new_val_ref_with_no_source(v.v))

eval_expr_Index(m, scopes, expr) ==
    LET source_val == context(call_eval_expr(m, scopes, expr.expr),
                              "EvalSourceExprFailed")
        src == source_val.v.v
    IN  IF ~source_val.ok THEN source_val
        ELSE CASE src.t = "Str" ->
                    LET index == context(
                            call_eval_expr_to_index(source_val.m, scopes, expr.location),
                            "EvalStringIndexFailed")
                    IN  IF ~index.ok THEN index
                        ELSE IF index.v < Len(src.s)
                             THEN Ok(index.m, new_str(<<src.s[index.v + 1]>>))
                        ELSE new_loc_err(index.m,
                                 Error("OutOfStringBounds", <<index.v>>), expr.loc)
               [] src.t = "List" ->
                    LET index == context(
                            call_eval_expr_to_index(source_val.m, scopes, expr.location),
                            "EvalListIndexFailed")
                        items == deref(index.m, src.ref).items
                    IN  IF ~index.ok THEN index
                        ELSE IF index.v < Len(items)
                             THEN Ok(index.m, items[index.v + 1])
                        ELSE new_loc_err(index.m,
                                 Error("OutOfListBounds", <<index.v>>), expr.loc)
               [] src.t = "Object" ->
                    LET name == context(
                            eval_expr_to_str(source_val.m, scopes, "property",
                                             expr.location),
                            "EvalObjectIndexFailed")
                        props == deref(name.m, src.ref).props
                    IN  IF ~name.ok THEN name
                        ELSE IF name.v \in DOMAIN props
                             THEN Ok(name.m,
                                     new_val_ref_with_source(props[name.v].v, src))
                        ELSE new_loc_err(name.m,
                                 Error("PropNotFound", name.v), expr.loc)
               [] OTHER ->
                    new_loc_err(source_val.m, Error("ValueNotIndexable", <<>>),
                                expr.loc)

eval_expr_RangeIndex(m, scopes, expr) ==
    LET has_start == expr.start # NoExpr
        start == IF has_start
                 THEN context(call_eval_expr_to_index(m, scopes, expr.start),
                              "EvalStartIndexFailed")
                 ELSE Ok(m, 0)
        start_val == IF has_start THEN Some(start.v) ELSE None
        has_end == expr.end # NoExpr
        end == IF has_end
               THEN context(call_eval_expr_to_index(start.m, scopes, expr.end),
                            "EvalEndIndexFailed")
               ELSE Ok(start.m, 0)
        end_val == IF has_end THEN Some(end.v) ELSE None
        value == match_eval_expr(end.m, scopes, expr.expr)
    IN  IF ~start.ok THEN start
        ELSE IF ~end.ok THEN end
        ELSE IF ~value.ok THEN value
        ELSE CASE value.v.v.t = "Str" ->
                    LET v == get_str_range_index(value.m, value.v.v.s,
                                                 start_val, end_val)
                    IN  IF v.ok THEN v
                        ELSE new_loc_err(value.m,
                                 Error("EvalStringRangeIndexFailed", <<>>) \o v.err,
                                 expr.loc)
               [] value.v.v.t = "List" ->
                    LET v == get_list_range_index(value.m, value.v.v,
                                                  start_val, end_val)
                    IN  IF v.ok THEN v
                        ELSE new_loc_err(value.m,
                                 Error("EvalListRangeIndexFailed", <<>>) \o v.err,
                                 expr.loc)
               [] OTHER ->
                    new_loc_err(value.m, Error("ValueNotRangeIndexable", <<>>),
                                expr.loc)

eval_expr_Range(m, scopes, expr) ==
    LET start == context(eval_expr_to_i64(m, scopes, "range start", expr.start),
                         "EvalRangeStartFailed")
        end == context(eval_expr_to_i64(start.m, scopes, "range end", expr.end),
                       "EvalRangeEndFailed")
    IN  IF ~start.ok THEN start
        ELSE IF ~end.ok THEN end
        ELSE new_list(end.m,
                 [i \in 1 .. (IF end.v > start.v THEN end.v - start.v ELSE 0)
                     |-> new_int(start.v + i - 1)])

eval_expr_Prop(m, scopes, expr) ==
    LET source == context(call_eval_expr(m, scopes, expr.expr), "EvalPropFailed")
        src == source.v.v
        namespace == IF expr.type_prop THEN type_functions(src)
                     ELSE deref(source.m, src.ref).props
    IN  IF ~source.ok THEN source
        ELSE IF expr.type_prop /\ src.t = "Null"
             THEN new_loc_err(source.m, Error("TypeFunctionOnNull", <<>>), expr.loc)
        ELSE IF ~expr.type_prop /\ src.t # "Object"
             THEN new_loc_err(source.m,
                      Error("PropAccessOnNonObject", <<src.t>>), expr.loc)
        ELSE IF expr.name \in DOMAIN namespace
             THEN Ok(source.m,
                     new_val_ref_with_source(namespace[expr.name].v, src))
        ELSE IF expr.type_prop
             THEN new_loc_err(source.m,
                      Error("TypeFunctionNotFound", expr.name), expr.loc)
        ELSE new_loc_err(source.m, Error("PropNotFound", expr.name), expr.loc)

eval_list_items(m, scopes, items, i, vals) ==
    IF i > Len(items) THEN Ok(m, vals)
    ELSE LET item == items[i]
             v == context(call_eval_expr(m, scopes, item.expr), "EvalListItemFailed")
         IN  IF ~v.ok THEN v
             ELSE IF ~item.is_spread
                  THEN call_eval_list_items(v.m, scopes, items, i + 1, Append(vals, v.v))
             ELSE IF v.v.v.t = "List"
                  THEN call_eval_list_items(v.m, scopes, items, i + 1,
                                       vals \o deref(v.m, v.v.v.ref).items)
             ELSE new_loc_err(v.m, Error("SpreadNonListInList", <<v.v.v.t>>),
                              item.expr.loc)

eval_object_props(m, scopes, props, i, vals, loc) ==
    IF i > Len(props) THEN Ok(m, vals)
    ELSE LET prop == props[i]
         IN  IF prop.k = "Pair"
             THEN LET name == context(
                          eval_expr_to_str(m, scopes, "property name", prop.name),
                          "EvalPropNameFailed")
                      v == context(call_eval_expr(name.m, scopes, prop.value),
                                   "EvalPropValueFailed")
                  IN  IF ~name.ok THEN name
                      ELSE IF ~v.ok THEN v
                      ELSE call_eval_object_props(v.m, scopes, props, i + 1,
                                             (name.v :> v.v) @@ vals, loc)
             ELSE IF prop.collect
                  THEN new_loc_err(m, Error("ObjectCollectOutsideDestructure", <<>>),
                                   loc)
             ELSE IF prop.is_spread
                  THEN LET value == match_eval_expr(m, scopes, prop.expr)
                       IN  IF ~value.ok THEN value
                           ELSE IF value.v.v.t = "Object"
                                THEN call_eval_object_props(value.m, scopes, props,
                                         i + 1,
                                         deref(value.m, value.v.v.ref).props @@ vals,
                                         loc)
                           ELSE new_loc_err(value.m,
                                    Error("SpreadNonObjectInObject",
                                          <<value.v.v.t>>),
                                    prop.expr.loc)
             ELSE IF prop.expr.k = "Var"
                  THEN LET v == get(m, scopes, prop.expr.name)
                       IN  IF v.some
                           THEN call_eval_object_props(m, scopes, props, i + 1,
                                                  (prop.expr.name :> v.v) @@ vals,
                                                  loc)
                           ELSE new_loc_err(m, Error("Undefined", prop.expr.name),
                                            prop.expr.loc)
             ELSE new_loc_err(m, Error("ObjectPropShorthandNotVar", <<>>),
                              prop.expr.loc)

eval_expr(m, scopes, expr) ==
    CASE expr.k = "Null" -> Ok(m, new_null)
      [] expr.k = "Bool" -> Ok(m, new_bool(expr.b))
      [] expr.k = "Int" -> Ok(m, new_int(expr.n))
      [] expr.k = "Str" -> Ok(m, new_str(expr.s))
      [] expr.k = "Var" ->
            LET v == get(m, scopes, expr.name)
            IN  IF v.some THEN Ok(m, v.v)
                ELSE new_loc_err(m, Error("Undefined", expr.name), expr.loc)
      [] expr.k = "BinaryOp" -> eval_expr_BinaryOp(m, scopes, expr)
      [] expr.k = "List" ->
            IF expr.collect
            THEN new_loc_err(m, Error("ListCollectOutsideDestructure", <<>>),
                             expr.loc)
            ELSE LET vals == context(
                         call_eval_list_items(m, scopes, expr.items, 1, <<>>),
                         "EvalListItemsFailed")
                 IN  IF ~vals.ok THEN vals ELSE new_list(vals.m, vals.v)
      [] expr.k = "Index" -> eval_expr_Index(m, scopes, expr)
      [] expr.k = "RangeIndex" -> eval_expr_RangeIndex(m, scopes, expr)
      [] expr.k = "Range" -> eval_expr_Range(m, scopes, expr)
      [] expr.k = "Object" ->
            LET vals == call_eval_object_props(m, scopes, expr.props, 1, <<>>, expr.loc)
            IN  IF ~vals.ok THEN vals ELSE new_object(vals.m, vals.v)
      [] expr.k = "Prop" -> eval_expr_Prop(m, scopes, expr)
      [] expr.k = "Func" ->
            new_func(m, None, expr.args, expr.collect_args, expr.stmts, scopes)
      [] expr.k = "Call" ->
            context(eval_call(m, scopes, expr.func, expr.args, expr.loc),
                    "EvalCallFailed")

(***************************************************************************)
(* Calls (eval/mod.rs, eval_call).                                         *)
(***************************************************************************)
\* a call that treats a `break` or `continue` leaving the function body like
\* the end of the body
eval_call_Func_swallows_escape(m, scopes, f, source, arg_vals, loc) ==
    LET bindings == [i \in 1 .. Len(f.args) |->
                        [lhs |-> f.args[i], rhs |-> arg_vals[i]]]
        v == context_with(eval_stmts(m, f.closure, bindings, f.stmts),
                          "EvalFuncCallFailed", <<f.name, loc[1], loc[2]>>)
    IN  IF Len(f.args) # Len(arg_vals)
        THEN new_loc_err(m, Error("ArgNumMismatch", <<Len(f.args), Len(arg_vals)>>),
                         loc)
        ELSE IF ~v.ok THEN v
        ELSE IF v.v.k = "Return" THEN Ok(v.m, v.v.value)
        ELSE Ok(v.m, new_null)

eval_call_Func(m, scopes, f, source, arg_vals, loc) ==
    LET num_params == Len(f.args)
        got == Len(arg_vals)
        rest == new_list(m, SubSeq(arg_vals, num_params, got))
        m1 == IF f.collect_args THEN rest.m ELSE m
        bindings ==
            [i \in 1 .. num_params |->
                [lhs |-> f.args[i],
                 rhs |-> IF f.collect_args /\ i = num_params THEN rest.v
                         ELSE arg_vals[i]]]
            \o (IF source # NoSource
                THEN <<[lhs |-> E_Var(s_this, <<0, 0>>),
                        rhs |-> new_val_ref_with_no_source(source)]>>
                ELSE <<>>)
        v == context_with(eval_stmts(m1, f.closure, bindings, f.stmts),
                          "EvalFuncCallFailed", <<f.name, loc[1], loc[2]>>)
    IN  IF f.collect_args /\ num_params - 1 > got
        THEN new_loc_err(m, Error("TooFewArgs", <<num_params - 1, got>>), loc)
        ELSE IF ~f.collect_args /\ num_params # got
             THEN new_loc_err(m, Error("ArgNumMismatch", <<num_params, got>>), loc)
        ELSE IF ~v.ok THEN v
        ELSE CASE v.v.k = "None" -> Ok(v.m, new_null)
               [] v.v.k = "Break" -> Err(v.m, Error("BreakOutsideLoop", <<>>))
               [] v.v.k = "Continue" -> Err(v.m, Error("ContinueOutsideLoop", <<>>))
               [] v.v.k = "Return" -> Ok(v.m, v.v.value)

eval_call(m, scopes, func, args, loc) ==
    LET arg_vals == context(call_eval_list_items(m, scopes, args, 1, <<>>),
                            "EvalCallArgsFailed")
        func_val == context(call_eval_expr(arg_vals.m, scopes, func),
                            "EvalCallFuncFailed")
        v == func_val.v.v
        source == func_val.v.source
    IN  IF ~arg_vals.ok THEN arg_vals
        ELSE IF ~func_val.ok THEN func_val
        ELSE CASE v.t = "BuiltinFunc" ->
                    context_with(
                        call_builtin(func_val.m, v.name, source, arg_vals.v),
                        "EvalBuiltinFuncCallFailed", <<v.name, loc[1], loc[2]>>)
               [] v.t = "Func" ->
                    eval_call_Func(func_val.m, scopes, deref(func_val.m, v.ref),
                                   source, arg_vals.v, loc)
               [] OTHER ->
                    new_loc_err(func_val.m, Error("CannotCallNonFunc", <<v.t>>),
                                loc)

(***************************************************************************)
(* The binder (eval/bind.rs).  A bind returns the names bound so far       *)
(* (`names_in_binding`, a `&mut HashSet` in the source) as its value.      *)
(***************************************************************************)
RECURSIVE bind_range_items(_, _, _, _, _)

\* a `bind_next_name` that checks `names_in_binding` only after the scope write
bind_next_name_checks_late(m, scopes, names_in_binding, name, name_loc, rhs, bind_type) ==
    IF name = s_underscore THEN Ok(m, names_in_binding)
    ELSE LET d == declare(m, scopes, name, name_loc, rhs)
             a == assign(m, scopes, name, rhs)
             m1 == IF bind_type = "Declaration" THEN d.m ELSE a.m
         IN  IF name \in names_in_binding
             THEN new_loc_err(m1, Error("AlreadyInBinding", name), name_loc)
             ELSE IF bind_type = "Declaration" /\ ~d.ok
                  THEN new_loc_err(m,
                           Error("AlreadyInScope", <<name, d.prev[1], d.prev[2]>>),
                           name_loc)
             ELSE IF bind_type = "Assignment" /\ ~a.ok
                  THEN new_loc_err(m, Error("Undefined", name), name_loc)
             ELSE Ok(m1, names_in_binding \cup {name})

\* a `bind_next_name` without the discard pattern
bind_next_name_binds_underscore(m, scopes, names_in_binding, name, name_loc, rhs, bind_type) ==
    IF name \in names_in_binding
    THEN new_loc_err(m, Error("AlreadyInBinding", name), name_loc)
    ELSE IF bind_type = "Declaration"
         THEN LET d == declare(m, scopes, name, name_loc, rhs)
              IN  IF ~d.ok
                  THEN new_loc_err(m,
                           Error("AlreadyInScope", <<name, d.prev[1], d.prev[2]>>),
                           name_loc)
                  ELSE Ok(d.m, names_in_binding \cup {name})
    ELSE LET a == assign(m, scopes, name, rhs)
         IN  IF ~a.ok THEN new_loc_err(m, Error("Undefined", name), name_loc)
             ELSE Ok(a.m, names_in_binding \cup {name})

bind_next_name(m, scopes, names_in_binding, name, name_loc, rhs, bind_type) ==
    IF name = s_underscore THEN Ok(m, names_in_binding)
    ELSE IF name \in names_in_binding
         THEN new_loc_err(m, Error("AlreadyInBinding", name), name_loc)
    ELSE IF bind_type = "Declaration"
         THEN LET d == declare(m, scopes, name, name_loc, rhs)
              IN  IF ~d.ok
                  THEN new_loc_err(m,
                           Error("AlreadyInScope", <<name, d.prev[1], d.prev[2]>>),
                           name_loc)
                  ELSE Ok(d.m, names_in_binding \cup {name})
    ELSE LET a == assign(m, scopes, name, rhs)
         IN  IF ~a.ok THEN new_loc_err(m, Error("Undefined", name), name_loc)
             ELSE Ok(a.m, names_in_binding \cup {name})

bind_name(m, scopes, name, name_loc, rhs, bind_type) ==
    bind_next_name(m, scopes, {}, name, name_loc, rhs, bind_type)

\* `for (i, v) in rhs_items.iter().enumerate() { lhs_items[start + i] = v }`
\* a loop that overwrites the head of the list, whatever the start
bind_range_items_at_head(m, ref, start, rhs_items, i) ==
    LET items == deref(m, ref).items
    IN  [m EXCEPT !.heap[ref].items =
            [j \in 1 .. Len(items) |->
                IF j <= Len(rhs_items) THEN clone(rhs_items[j]) ELSE items[j]]]

bind_range_items(m, ref, start, rhs_items, i) ==
    IF i > Len(rhs_items) THEN m
    ELSE bind_range_items(
             [m EXCEPT !.heap[ref].items[start + i] = clone(rhs_items[i])],
             ref, start, rhs_items, i + 1)

bind_range_index(m, scopes, lhs_items, maybe_start, maybe_end, lhs_loc, rhs_items) ==
    LET start == IF maybe_start # NoExpr
                 THEN context(call_eval_expr_to_index(m, scopes, maybe_start),
                              "EvalStartIndexFailed")
                 ELSE Ok(m, 0)
        rhs_len == Len(rhs_items)
        end == IF maybe_end # NoExpr
               THEN context(call_eval_expr_to_index(start.m, scopes, maybe_end),
                            "EvalEndIndexFailed")
               ELSE Ok(start.m, rhs_len)
        list_len == Len(deref(end.m, lhs_items.ref).items)
        range_len == end.v - start.v
    IN  IF ~start.ok THEN start
        ELSE IF ~end.ok THEN end
        ELSE IF start.v > list_len
             THEN new_loc_err(end.m,
                      Error("RangeStartOutOfListBounds", <<start.v, list_len>>),
                      lhs_loc)
        ELSE IF start.v >= end.v
             THEN new_loc_err(end.m,
                      Error("RangeStartNotBeforeEnd", <<start.v, end.v>>), lhs_loc)
        ELSE IF end.v > list_len
             THEN new_loc_err(end.m,
                      Error("RangeEndOutOfListBounds", <<end.v, list_len>>),
                      lhs_loc)
        ELSE IF range_len # rhs_len
             THEN new_loc_err(end.m,
                      Error("RangeIndexItemMismatch", <<range_len, rhs_len>>),
                      lhs_loc)
        ELSE Ok(bind_range_items(end.m, lhs_items.ref, start.v, rhs_items, 1), {})

bind_object_prop(m, scopes, names_in_binding, lhs, rhs, prop_name, prop_name_loc, bind_type) ==
    LET props == deref(m, rhs.ref).props
    IN  IF prop_name = s_underscore THEN Ok(m, names_in_binding)
        ELSE IF prop_name \notin DOMAIN props
             THEN new_loc_err(m, Error("PropNotFound", prop_name), prop_name_loc)
        ELSE context(call_bind_next(m, scopes, names_in_binding, lhs,
                               clone(props[prop_name]), bind_type),
                     "BindNextFailed")

\* the loop of bind_object from item i on
bind_object_items(m, scopes, names_in_binding, lhs, rhs, bind_type, i, remaining_keys) ==
    IF i > Len(lhs) THEN Ok(m, names_in_binding)
    ELSE LET prop_item == lhs[i]
         IN  IF prop_item.k = "Single"
             THEN LET loc == prop_item.expr.loc
                      prop_name == prop_item.expr.name
                      props == deref(m, rhs.ref).props
                      new_rhs == new_object(m,
                                     [k \in remaining_keys |-> clone(props[k])])
                      collected == context(
                          bind_next_name(new_rhs.m, scopes, names_in_binding,
                                         prop_name, loc, new_rhs.v, bind_type),
                          "BindObjectCollectFailed")
                      single == context(
                          call_bind_object_prop(m, scopes, names_in_binding,
                                           prop_item.expr, rhs, prop_name, loc,
                                           bind_type),
                          "BindObjectSingleFailed")
                  IN  IF prop_item.is_spread
                      THEN new_loc_err(m, Error("SpreadOnObjectDestructure", <<>>),
                                       loc)
                      ELSE IF prop_item.expr.k # "Var"
                           THEN new_loc_err(m,
                                    Error("ObjectPropShorthandNotVar", <<>>), loc)
                      ELSE IF prop_item.collect
                           THEN IF i # Len(lhs)
                                THEN new_loc_err(m,
                                         Error("ObjectCollectIsNotLast", <<>>), loc)
                                ELSE IF ~collected.ok THEN collected
                                ELSE call_bind_object_items(collected.m, scopes,
                                         collected.v, lhs, rhs, bind_type, i + 1,
                                         remaining_keys)
                      ELSE IF ~single.ok THEN single
                      ELSE call_bind_object_items(single.m, scopes, single.v, lhs, rhs,
                               bind_type, i + 1, remaining_keys \ {prop_name})
             ELSE LET prop_name == context(
                          eval_expr_to_str(m, scopes, "property", prop_item.name),
                          "EvalObjectIndexFailed")
                      pair == context(
                          call_bind_object_prop(prop_name.m, scopes, names_in_binding,
                                           prop_item.value, rhs, prop_name.v,
                                           prop_item.name.loc, bind_type),
                          "BindObjectPairFailed")
                  IN  IF ~prop_name.ok THEN prop_name
                      ELSE IF ~pair.ok THEN pair
                      ELSE call_bind_object_items(pair.m, scopes, pair.v, lhs, rhs,
                               bind_type, i + 1, remaining_keys \ {prop_name.v})

bind_object(m, scopes, names_in_binding, lhs, rhs, bind_type) ==
    call_bind_object_items(m, scopes, names_in_binding, lhs, rhs, bind_type, 1,
                      DOMAIN deref(m, rhs.ref).props)

\* the loop of bind_list from item i (0-based) on
bind_list_items(m, scopes, names_in_binding, lhs, collect, lhs_loc, rhs, bind_type, i) ==
    LET lhs_len == Len(lhs)
        items == deref(m, rhs.ref).items
        suffix == new_list(m, SubSeq(items, lhs_len, Len(items)))
        is_rest == collect /\ i = lhs_len - 1
        item_rhs == IF is_rest THEN suffix.v ELSE clone(items[i + 1])
        bound == context(
            call_bind_next(IF is_rest THEN suffix.m ELSE m, scopes, names_in_binding,
                      lhs[i + 1].expr, item_rhs, bind_type),
            "BindListItemFailed")
    IN  IF i >= lhs_len THEN Ok(m, names_in_binding)
        ELSE IF lhs[i + 1].is_spread
             THEN new_loc_err(m, Error("SpreadInListDestructure", <<i>>), lhs_loc)
        ELSE IF ~bound.ok THEN bound
        ELSE call_bind_list_items(bound.m, scopes, bound.v, lhs, collect, lhs_loc, rhs,
                             bind_type, i + 1)

\* a `bind_list` that binds item by item and only notices a length mismatch
\* when it runs out of right-hand items
bind_list_unchecked(m, scopes, names_in_binding, lhs, collect, lhs_loc, rhs, bind_type) ==
    LET lhs_len == Len(lhs)
        rhs_len == Len(deref(m, rhs.ref).items)
        usable == IF rhs_len < lhs_len THEN rhs_len ELSE lhs_len
        bound == call_bind_list_items(m, scopes, names_in_binding,
                                 SubSeq(lhs, 1, usable), FALSE, lhs_loc, rhs,
                                 bind_type, 0)
    IN  IF (collect /\ lhs_len - 1 <= rhs_len) \/ (~collect /\ lhs_len = rhs_len)
        THEN call_bind_list_items(m, scopes, names_in_binding, lhs, collect, lhs_loc,
                             rhs, bind_type, 0)
        ELSE IF ~bound.ok THEN bound
        ELSE new_loc_err(bound.m,
                 Error(IF collect THEN "ListCollectTooFew"
                       ELSE "ListDestructureItemMismatch", <<lhs_len, rhs_len>>),
                 lhs_loc)

bind_list(m, scopes, names_in_binding, lhs, collect, lhs_loc, rhs, bind_type) ==
    LET lhs_len == Len(lhs)
        rhs_len == Len(deref(m, rhs.ref).items)
    IN  IF collect /\ lhs_len - 1 > rhs_len
        THEN new_loc_err(m, Error("ListCollectTooFew", <<lhs_len, rhs_len>>),
                         lhs_loc)
        ELSE IF ~collect /\ lhs_len # rhs_len
             THEN new_loc_err(m,
                      Error("ListDestructureItemMismatch", <<lhs_len, rhs_len>>),
                      lhs_loc)
        ELSE call_bind_list_items(m, scopes, names_in_binding, lhs, collect, lhs_loc,
                             rhs, bind_type, 0)

\* writes `rhs` to slot n (0-based) of the list behind `list`
set_list_slot(m, list, n, rhs) ==
    LET v == set_val_ref(m, rhs)
    IN  [v.m EXCEPT !.heap[list.ref].items[n + 1] = v.v]

\* writes `rhs` to property `name` of the object behind `object`: an existing
\* slot is set, a new one is inserted
set_object_prop(m, object, name, rhs) ==
    LET props == deref(m, object.ref).props
        v == set_val_ref(m, rhs)
    IN  IF name \in DOMAIN props
        THEN [v.m EXCEPT !.heap[object.ref].props[name] = v.v]
        ELSE [m EXCEPT !.heap[object.ref].props = (name :> rhs) @@ props]

\* an index write that accepts the index one past the last item
bind_next_Index_off_by_one(m, scopes, names_in_binding, lhs, rhs) ==
    LET value == match_eval_expr(m, scopes, lhs.expr)
        n == context(call_eval_expr_to_index(value.m, scopes, lhs.location),
                     "EvalListIndexFailed")
        items == deref(n.m, value.v.v.ref).items
    IN  IF ~value.ok THEN value
        ELSE IF value.v.v.t # "List"
             THEN new_loc_err(value.m, Error("ValueNotIndexAssignable", <<>>),
                              lhs.loc)
        ELSE IF ~n.ok THEN n
        ELSE IF n.v > Len(items)
             THEN new_loc_err(n.m, Error("OutOfListBounds", <<n.v>>), lhs.loc)
        ELSE IF n.v = Len(items)
             THEN Ok([n.m EXCEPT !.heap[value.v.v.ref].items = Append(@, rhs)],
                     names_in_binding)
        ELSE Ok(set_list_slot(n.m, value.v.v, n.v, rhs), names_in_binding)

bind_next_Index(m, scopes, names_in_binding, lhs, rhs) ==
    LET value == match_eval_expr(m, scopes, lhs.expr)
        n == context(call_eval_expr_to_index(value.m, scopes, lhs.location),
                     "EvalListIndexFailed")
        name == context(eval_expr_to_str(value.m, scopes, "property",
                                         lhs.location),
                        "EvalObjectIndexFailed")
    IN  IF ~value.ok THEN value
        ELSE CASE value.v.v.t = "List" ->
                    IF ~n.ok THEN n
                    ELSE IF n.v >= Len(deref(n.m, value.v.v.ref).items)
                         THEN new_loc_err(n.m, Error("OutOfListBounds", <<n.v>>),
                                          lhs.loc)
                    ELSE Ok(set_list_slot(n.m, value.v.v, n.v, rhs),
                            names_in_binding)
               [] value.v.v.t = "Object" ->
                    IF ~name.ok THEN name
                    ELSE Ok(set_object_prop(name.m, value.v.v, name.v, rhs),
                            names_in_binding)
               [] OTHER ->
                    new_loc_err(value.m, Error("ValueNotIndexAssignable", <<>>),
                                lhs.loc)

bind_next_RangeIndex(m, scopes, names_in_binding, lhs, rhs) ==
    LET value == match_eval_expr(m, scopes, lhs.expr)
        chars == [i \in 1 .. Len(rhs.v.s) |-> new_str(<<rhs.v.s[i]>>)]
        rhs_items == IF rhs.v.t = "List" THEN deref(value.m, rhs.v.ref).items
                     ELSE chars
        bound == call_bind_range_index(value.m, scopes, value.v.v, lhs.start, lhs.end,
                                  lhs.loc, rhs_items)
    IN  IF ~value.ok THEN value
        ELSE IF value.v.v.t # "List"
             THEN new_loc_err(value.m, Error("ValueNotRangeIndexAssignable", <<>>),
                              lhs.loc)
        ELSE IF rhs.v.t \notin {"List", "Str"}
             THEN new_loc_err(value.m,
                      Error("RangeIndexAssignOnNonIndexable", <<rhs.v.t>>),
                      lhs.loc)
        ELSE IF ~bound.ok THEN bound
        ELSE Ok(bound.m, names_in_binding)

bind_next_Prop(m, scopes, names_in_binding, lhs, rhs) ==
    LET value == match_eval_expr(m, scopes, lhs.expr)
    IN  IF lhs.type_prop
        THEN new_loc_err(m, Error("AssignToTypeProp", <<>>), lhs.loc)
        ELSE IF ~value.ok THEN value
        ELSE IF value.v.v.t = "Object"
             THEN Ok(set_object_prop(value.m, value.v.v, lhs.name, rhs),
                     names_in_binding)
        ELSE new_loc_err(value.m,
                 Error("PropAccessOnNonObject", <<value.v.v.t>>), lhs.loc)

new_invalid_bind_error(m, s, loc) ==
    new_loc_err(m, Error("InvalidBindTarget", <<s>>), loc)

bind_next(m, scopes, names_in_binding, lhs, rhs, bind_type) ==
    CASE lhs.k = "Var" ->
            bind_next_name(m, scopes, names_in_binding, lhs.name, lhs.loc, rhs,
                           bind_type)
      [] lhs.k = "Index" -> bind_next_Index(m, scopes, names_in_binding, lhs, rhs)
      [] lhs.k = "RangeIndex" ->
            bind_next_RangeIndex(m, scopes, names_in_binding, lhs, rhs)
      [] lhs.k = "Prop" -> bind_next_Prop(m, scopes, names_in_binding, lhs, rhs)
      [] lhs.k = "Object" ->
            IF rhs.v.t = "Object"
            THEN bind_object(m, scopes, names_in_binding, lhs.props, rhs.v,
                             bind_type)
            ELSE new_loc_err(m,
                     Error("ObjectDestructureOnNonObject", <<rhs.v.t>>), lhs.loc)
      [] lhs.k = "List" ->
            IF rhs.v.t = "List"
            THEN bind_list(m, scopes, names_in_binding, lhs.items, lhs.collect,
                           lhs.loc, rhs.v, bind_type)
            ELSE new_loc_err(m, Error("ListDestructureOnNonList", <<rhs.v.t>>),
                             lhs.loc)
      [] lhs.k = "Null" -> new_invalid_bind_error(m, "null", lhs.loc)
      [] lhs.k = "Bool" -> new_invalid_bind_error(m, "a boolean literal", lhs.loc)
      [] lhs.k = "Int" -> new_invalid_bind_error(m, "an integer literal", lhs.loc)
      [] lhs.k = "Str" -> new_invalid_bind_error(m, "a string literal", lhs.loc)
      [] lhs.k = "BinaryOp" ->
            new_invalid_bind_error(m, "a binary operation", lhs.loc)
      [] lhs.k = "Range" -> new_invalid_bind_error(m, "a range operation", lhs.loc)
      [] lhs.k = "Func" ->
            new_invalid_bind_error(m, "an anonymous function", lhs.loc)
      [] lhs.k = "Call" -> new_invalid_bind_error(m, "a function call", lhs.loc)

bind(m, scopes, lhs, rhs, bind_type) ==
    call_bind_next(m, scopes, {}, lhs, rhs, bind_type)

(***************************************************************************)
(* Statements (eval/mod.rs).  A statement result carries the Escape as its *)
(* value.                                                                  *)
(***************************************************************************)
RECURSIVE bind_new_bindings(_, _, _, _)
RECURSIVE eval_stmt_If(_, _, _, _)
RECURSIVE eval_stmt_While(_, _, _)
RECURSIVE eval_stmt_For(_, _, _, _, _)

\* `for (lhs, rhs) in new_bindings { bind(..).context(BindFailed)? }`
bind_new_bindings(m, new_scopes, new_bindings, i) ==
    IF i > Len(new_bindings) THEN Ok(m, {})
    ELSE LET b == context(bind(m, new_scopes, new_bindings[i].lhs,
                               new_bindings[i].rhs, "Declaration"),
                          "BindFailed")
         IN  IF ~b.ok THEN b
             ELSE bind_new_bindings(b.m, new_scopes, new_bindings, i + 1)

\* an eval_stmts that runs the statements in the frame of the enclosing code
eval_stmts_no_push(m, scopes, new_bindings, stmts) ==
    LET bound == bind_new_bindings(m, scopes, new_bindings, 1)
    IN  IF ~bound.ok THEN bound
        ELSE context(call_eval_stmts_with_scope_stack(bound.m, scopes, stmts),
                     "EvalStmtsWithScopeStackFailed")

eval_stmts(m, scopes, new_bindings, stmts) ==
    LET pushed == new_from_push(m, scopes, <<>>)
        bound == bind_new_bindings(pushed.m, pushed.scopes, new_bindings, 1)
    IN  IF ~bound.ok THEN bound
        ELSE context(call_eval_stmts_with_scope_stack(bound.m, pushed.scopes, stmts),
                     "EvalStmtsWithScopeStackFailed")

eval_stmts_with_scope_stack(m, scopes, stmts) ==
    IF stmts = <<>> THEN Ok(m, Escape_None)
    ELSE LET v == context(call_eval_stmt(m, scopes, Head(stmts)), "EvalStmtFailed")
         IN  IF ~v.ok THEN v
             ELSE IF v.v.k # "None" THEN v
             ELSE call_eval_stmts_with_scope_stack(v.m, scopes, Tail(stmts))

eval_stmts_in_new_scope(m, outer_scopes, stmts) ==
    eval_stmts(m, outer_scopes, <<>>, stmts)

value_to_pairs(m, v) ==
    CASE v.t = "Str" ->
            Ok(m, [i \in 1 .. Len(v.s) |-> <<new_int(i - 1), new_str(<<v.s[i]>>)>>])
      [] v.t = "List" ->
            LET items == deref(m, v.ref).items
            IN  Ok(m, [i \in 1 .. Len(items) |->
                          <<new_int(i - 1), clone(items[i])>>])
      [] v.t = "Object" ->
            LET props == deref(m, v.ref).props
                keys == sorted_keys(DOMAIN props)
            IN  Ok(m, [i \in 1 .. Len(keys) |->
                          <<new_str(keys[i]), clone(props[keys[i]])>>])
      [] OTHER -> Err(m, Error("ForIterNotIterable", <<>>))

\* the branches of an `if` from branch i on, then the `else` block
eval_stmt_If(m, scopes, stmt, i) ==
    IF i > Len(stmt.branches)
    THEN IF stmt.else_stmts.some
         THEN context(eval_stmts_in_new_scope(m, scopes, stmt.else_stmts.stmts),
                      "EvalElseStatementsFailed")
         ELSE Ok(m, Escape_None)
    ELSE LET b == context(eval_expr_to_bool(m, scopes, "condition",
                                            stmt.branches[i].cond),
                          "EvalIfConditionFailed")
         IN  IF ~b.ok THEN b
             ELSE IF b.v
                  THEN context(eval_stmts_in_new_scope(b.m, scopes,
                                                       stmt.branches[i].stmts),
                               "EvalIfStatementsFailed")
             ELSE eval_stmt_If(b.m, scopes, stmt, i + 1)

\* a `while` whose `break` only ends the current iteration
eval_stmt_While_break_continues(m, scopes, stmt) ==
    LET b == context(eval_expr_to_bool(m, scopes, "condition", stmt.cond),
                     "EvalWhileConditionFailed")
        escape == context(eval_stmts_in_new_scope(b.m, scopes, stmt.stmts),
                          "EvalWhileStatementsFailed")
    IN  IF ~b.ok THEN b
        ELSE IF ~b.v THEN Ok(b.m, Escape_None)
        ELSE IF ~escape.ok THEN escape
        ELSE IF escape.v.k = "Return" THEN escape
        ELSE eval_stmt_While(escape.m, scopes, stmt)

\* one turn of `loop { .. }`, then the rest of the loop
eval_stmt_While(m, scopes, stmt) ==
    LET b == context(eval_expr_to_bool(m, scopes, "condition", stmt.cond),
                     "EvalWhileConditionFailed")
        escape == context(eval_stmts_in_new_scope(b.m, scopes, stmt.stmts),
                          "EvalWhileStatementsFailed")
    IN  IF ~b.ok THEN b
        ELSE IF ~b.v THEN Ok(b.m, Escape_None)
        ELSE IF ~escape.ok THEN escape
        ELSE CASE escape.v.k = "None" -> eval_stmt_While(escape.m, scopes, stmt)
               [] escape.v.k = "Break" -> Ok(escape.m, Escape_None)
               [] escape.v.k = "Continue" ->
                    eval_stmt_While(escape.m, scopes, stmt)
               [] escape.v.k = "Return" -> escape

\* a loop that reads its pairs from the iterator expression anew before
\* every iteration
eval_stmt_For_live(m, scopes, stmt, pairs, i) ==
    LET iter_val == call_eval_expr(m, scopes, stmt.iter)
        live == value_to_pairs(iter_val.m, iter_val.v.v)
    IN  IF ~iter_val.ok THEN iter_val
        ELSE IF ~live.ok THEN live
        ELSE IF i > Len(live.v) THEN Ok(live.m, Escape_None)
        ELSE LET pair == new_list(live.m, <<live.v[i][1], live.v[i][2]>>)
                 new_bindings == <<[lhs |-> stmt.lhs, rhs |-> pair.v]>>
                 escape == context(eval_stmts(pair.m, scopes, new_bindings,
                                              stmt.stmts),
                                   "EvalForStatementsFailed")
             IN  IF ~escape.ok THEN escape
                 ELSE CASE escape.v.k = "None" ->
                             eval_stmt_For(escape.m, scopes, stmt, live.v, i + 1)
                        [] escape.v.k = "Break" -> Ok(escape.m, Escape_None)
                        [] escape.v.k = "Continue" ->
                             eval_stmt_For(escape.m, scopes, stmt, live.v, i + 1)
                        [] escape.v.k = "Return" -> escape

\* `for (key, value) in pairs { .. }` from pair i on
eval_stmt_For(m, scopes, stmt, pairs, i) ==
    IF i > Len(pairs) THEN Ok(m, Escape_None)
    ELSE LET pair == new_list(m, <<pairs[i][1], pairs[i][2]>>)
             new_bindings == <<[lhs |-> stmt.lhs, rhs |-> pair.v]>>
             escape == context(eval_stmts(pair.m, scopes, new_bindings,
                                          stmt.stmts),
                               "EvalForStatementsFailed")
         IN  IF ~escape.ok THEN escape
             ELSE CASE escape.v.k = "None" ->
                         eval_stmt_For(escape.m, scopes, stmt, pairs, i + 1)
                    [] escape.v.k = "Break" -> Ok(escape.m, Escape_None)
                    [] escape.v.k = "Continue" ->
                         eval_stmt_For(escape.m, scopes, stmt, pairs, i + 1)
                    [] escape.v.k = "Return" -> escape

\* drops the value of a successful result: `f(..).context(..)?;` followed by
\* the `Ok(Escape::None)` that ends eval_stmt
discard(r) == IF r.ok THEN Ok(r.m, Escape_None) ELSE r

eval_stmt_Declare(m, scopes, stmt) ==
    LET v == context(call_eval_expr(m, scopes, stmt.rhs), "EvalDeclarationRhsFailed")
    IN  IF ~v.ok THEN v
        ELSE discard(context(bind(v.m, scopes, stmt.lhs, v.v, "Declaration"),
                             "DeclarationBindFailed"))

\* an Assign that evaluates the source expression of an index, range-index
\* or property target before the right-hand side
eval_stmt_Assign_target_first(m, scopes, stmt) ==
    LET t == IF stmt.lhs.k \in {"Index", "RangeIndex", "Prop"}
             THEN match_eval_expr(m, scopes, stmt.lhs.expr)
             ELSE Ok(m, new_null)
        v == context(call_eval_expr(t.m, scopes, stmt.rhs), "EvalAssignmentRhsFailed")
    IN  IF ~t.ok THEN t
        ELSE IF ~v.ok THEN v
        ELSE discard(context(bind(v.m, scopes, stmt.lhs, v.v, "Assignment"),
                             "AssignmentBindFailed"))

eval_stmt_Assign(m, scopes, stmt) ==
    LET v == context(call_eval_expr(m, scopes, stmt.rhs), "EvalAssignmentRhsFailed")
    IN  IF ~v.ok THEN v
        ELSE discard(context(bind(v.m, scopes, stmt.lhs, v.v, "Assignment"),
                             "AssignmentBindFailed"))

\* bind_next with an operation (`lhs op= rhs`): read the current value of the
\* target, apply the operation, write the result.  A target is a variable,
\* an item of a list or a property of an object, with its current value:
OpTarget(kind, container, key, old) ==
    [kind |-> kind, container |-> container, key |-> key, old |-> old]

bind_op_target_Var(m, scopes, lhs) ==
    LET cur == get(m, scopes, lhs.name)
    IN  IF ~cur.some
        THEN new_loc_err(m, Error("Undefined", lhs.name), lhs.loc)
        ELSE Ok(m, OpTarget("Var", new_null, lhs.name, cur.v))

bind_op_target_item(m, list, n, lhs_loc) ==
    LET items == deref(m, list.ref).items
    IN  IF n >= Len(items)
        THEN new_loc_err(m, Error("OutOfListBounds", <<n>>), lhs_loc)
        ELSE Ok(m, OpTarget("Item", list, n, items[n + 1]))

\* `undefined` is the error for a property the object does not have
bind_op_target_prop(m, object, name, lhs_loc, undefined) ==
    LET props == deref(m, object.ref).props
    IN  IF name \notin DOMAIN props
        THEN new_loc_err(m, Error(undefined, name), lhs_loc)
        ELSE Ok(m, OpTarget("Prop", object, name, props[name]))

bind_op_target_Index(m, scopes, lhs) ==
    LET value == match_eval_expr(m, scopes, lhs.expr)
        n == context(call_eval_expr_to_index(value.m, scopes, lhs.location),
                     "EvalListIndexFailed")
        name == context(eval_expr_to_str(value.m, scopes, "property",
                                         lhs.location),
                        "EvalObjectIndexFailed")
    IN  IF ~value.ok THEN value
        ELSE CASE value.v.v.t = "List" ->
                    IF ~n.ok THEN n
                    ELSE bind_op_target_item(n.m, value.v.v, n.v, lhs.loc)
               [] value.v.v.t = "Object" ->
                    IF ~name.ok THEN name
                    ELSE bind_op_target_prop(name.m, value.v.v, name.v, lhs.loc,
                                             "OpOnUndefinedIndex")
               [] OTHER ->
                    new_loc_err(value.m, Error("ValueNotIndexAssignable", <<>>),
                                lhs.loc)

bind_op_target_Prop(m, scopes, lhs) ==
    LET value == match_eval_expr(m, scopes, lhs.expr)
    IN  IF ~value.ok THEN value
        ELSE IF value.v.v.t # "Object"
             THEN new_loc_err(value.m,
                      Error("PropAccessOnNonObject", <<value.v.v.t>>), lhs.loc)
        ELSE bind_op_target_prop(value.m, value.v.v, lhs.name, lhs.loc,
                                 "OpOnUndefinedProp")

bind_op_target(m, scopes, lhs) ==
    CASE lhs.k = "Var" -> bind_op_target_Var(m, scopes, lhs)
      [] lhs.k = "Index" -> bind_op_target_Index(m, scopes, lhs)
      [] lhs.k = "Prop" -> bind_op_target_Prop(m, scopes, lhs)
      [] OTHER -> new_loc_err(m, Error("InvalidOpAssignTarget", lhs.k), lhs.loc)

\* writes the result `applied` of the operation to the target
bind_op_write(scopes, target, applied) ==
    LET new_v == new_val_ref_with_no_source(applied.v)
    IN  IF ~applied.ok THEN applied
        ELSE Ok(CASE target.kind = "Var" ->
                       assign(applied.m, scopes, target.key, new_v).m
                  [] target.kind = "Item" ->
                       set_list_slot(applied.m, target.container, target.key,
                                     new_v)
                  [] target.kind = "Prop" ->
                       set_object_prop(applied.m, target.container, target.key,
                                       new_v),
                {})

\* applies the operation to the current value of the target, if there is one
bind_op_apply(scopes, rhs, op, op_loc, target) ==
    IF ~target.ok THEN target
    ELSE bind_op_write(scopes, target.v,
             context(apply_binary_operation(target.m, op, op_loc,
                                            target.v.old.v, rhs.v),
                     "ApplyBinOpFailed"))

bind_next_op(m, scopes, lhs, rhs, op, op_loc) ==
    bind_op_apply(scopes, rhs, op, op_loc, bind_op_target(m, scopes, lhs))

eval_stmt_OpAssign(m, scopes, stmt) ==
    LET rhs_val == context(call_eval_expr(m, scopes, stmt.rhs), "EvalBinOpRhsFailed")
    IN  IF ~rhs_val.ok THEN rhs_val
        ELSE discard(context(bind_next_op(rhs_val.m, scopes, stmt.lhs, rhs_val.v,
                                          stmt.op, stmt.op_loc),
                             "OpAssignmentBindFailed"))

eval_stmt_For_head(m, scopes, stmt) ==
    LET iter_val == context(call_eval_expr(m, scopes, stmt.iter), "EvalForIterFailed")
        pairs == context(value_to_pairs(iter_val.m, iter_val.v.v),
                         "ConvertForIterToPairsFailed")
    IN  IF ~iter_val.ok THEN iter_val
        ELSE IF ~pairs.ok THEN pairs
        ELSE eval_stmt_For(pairs.m, scopes, stmt, pairs.v, 1)

\* a function declaration that captures a snapshot of the frames
eval_stmt_Func_by_value(m, scopes, stmt) ==
    LET frames == [i \in 1 .. Len(scopes) |-> Len(m.heap) + i]
        m1 == [m EXCEPT !.heap =
                   m.heap \o [i \in 1 .. Len(scopes) |-> m.heap[scopes[i]]]]
        func == new_func(m1, Some(stmt.name), stmt.args, stmt.collect_args,
                         stmt.stmts, frames)
    IN  discard(context(bind_name(func.m, scopes, stmt.name, stmt.loc, func.v,
                                  "Declaration"),
                        "DeclareFunctionFailed"))

eval_stmt_Func(m, scopes, stmt) ==
    LET closure == scopes
        func == new_func(m, Some(stmt.name), stmt.args, stmt.collect_args,
                         stmt.stmts, closure)
    IN  discard(context(bind_name(func.m, scopes, stmt.name, stmt.loc, func.v,
                                  "Declaration"),
                        "DeclareFunctionFailed"))

eval_stmt_Return(m, scopes, stmt) ==
    LET v == context(call_eval_expr(m, scopes, stmt.expr), "EvalReturnExprFailed")
    IN  IF ~v.ok THEN v ELSE Ok(v.m, Escape_Return(v.v, stmt.loc))

eval_stmt(m, scopes, stmt) ==
    CASE stmt.k = "Block" ->
            discard(context(eval_stmts_in_new_scope(m, scopes, stmt.block),
                            "EvalBlockFailed"))
      [] stmt.k = "Expr" ->
            discard(context(call_eval_expr(m, scopes, stmt.expr), "EvalExprFailed"))
      [] stmt.k = "Declare" -> eval_stmt_Declare(m, scopes, stmt)
      [] stmt.k = "Assign" -> eval_stmt_Assign(m, scopes, stmt)
      [] stmt.k = "OpAssign" -> eval_stmt_OpAssign(m, scopes, stmt)
      [] stmt.k = "If" -> eval_stmt_If(m, scopes, stmt, 1)
      [] stmt.k = "While" -> eval_stmt_While(m, scopes, stmt)
      [] stmt.k = "For" -> eval_stmt_For_head(m, scopes, stmt)
      [] stmt.k = "Break" -> Ok(m, Escape_Break(stmt.loc))
      [] stmt.k = "Continue" -> Ok(m, Escape_Continue(stmt.loc))
      [] stmt.k = "Func" -> eval_stmt_Func(m, scopes, stmt)
      [] stmt.k = "Return" -> eval_stmt_Return(m, scopes, stmt)

(***************************************************************************)
(* The lexer (src/src/lexer).  A source text is a sequence of characters   *)
(* (Unicode scalar values); a Rust `String` is the sequence of the bytes   *)
(* of its UTF-8 encoding.                                                  *)
(***************************************************************************)
c_newline == 10
c_return == 13
c_quote == 34
c_hash == 35
c_dollar == 36
c_backslash == 92
c_underscore == 95
c_n == 110
c_r == 114
c_x == 120
c_brace_open == 123
c_brace_close == 125

\* the UTF-8 encoding of one character
encode_utf8(c) ==
    IF c < 128 THEN <<c>>
    ELSE IF c < 2048 THEN <<192 + (c \div 64), 128 + (c % 64)>>
    ELSE IF c < 65536
        THEN <<224 + (c \div 4096), 128 + ((c \div 64) % 64), 128 + (c % 64)>>
    ELSE <<240 + (c \div 262144), 128 + ((c \div 4096) % 64),
           128 + ((c \div 64) % 64), 128 + (c % 64)>>

\* chars.into_iter().collect::<String>()
RECURSIVE collect(_)
collect(chars) ==
    IF chars = <<>> THEN <<>>
    ELSE encode_utf8(chars[1]) \o collect(Tail(chars))

is_ascii_whitespace(c) == c \in {9, 10, 12, 13, 32}
is_ascii_digit(c) == c \in 48 .. 57
is_ascii_alphabetic(c) == c \in (65 .. 90) \cup (97 .. 122)
is_ascii_alphanumeric(c) == is_ascii_alphabetic(c) \/ is_ascii_digit(c)

\* Scanner::new; `chars` counts the characters the CharIndices iterator
\* has yielded
Scanner_new(chars) ==
    LET cur_char == IF chars = <<>> THEN None ELSE Some(chars[1])
        loc == IF cur_char = Some(c_newline) THEN <<2, 0>> ELSE <<1, 1>>
    IN  [raw_chars |-> chars,
         chars |-> IF chars = <<>> THEN 0 ELSE 1,
         index |-> 0,
         cur_char |-> cur_char,
         line |-> loc[1],
         col |-> loc[2]]

peek_char(scanner) == scanner.cur_char

next_char(scanner) ==
    IF scanner.chars < Len(scanner.raw_chars)
    THEN LET k == scanner.chars + 1
             c == scanner.raw_chars[k]
         IN  [scanner EXCEPT
                 !.chars = k,
                 !.index = Len(collect(SubSeq(scanner.raw_chars, 1, k - 1))),
                 !.cur_char = Some(c),
                 !.line = IF c = c_newline THEN @ + 1 ELSE @,
                 !.col = IF c = c_newline THEN 0 ELSE @ + 1]
    ELSE [scanner EXCEPT
             !.index = Len(collect(scanner.raw_chars)),
             !.cur_char = None]

loc(scanner) == <<scanner.line, scanner.col>>

range(scanner, start, end) ==
    SubSeq(collect(scanner.raw_chars), start + 1, end)

\* the tokens; `s` is the string, `n` the integer and `slots` the
\* interpolation slots of the variants that carry one
Token(t) == [t |-> t, s |-> <<>>, n |-> 0, slots |-> <<>>]
Token_Ident(s) == [Token("Ident") EXCEPT !.s = s]
Token_IntLiteral(n) == [Token("IntLiteral") EXCEPT !.n = n]
Token_StrLiteral(s) == [Token("StrLiteral") EXCEPT !.s = s]
Token_InterpStrLiteral(s, slots) ==
    [Token("InterpStrLiteral") EXCEPT !.s = s, !.slots = slots]

LexError(e, at, c) == [e |-> e, loc |-> at, c |-> c]

\* `while let Some(c) = peek_char() { if c == '\n' { break; } next_char(); }`
RECURSIVE skip_comment(_)
skip_comment(scanner) ==
    IF ~peek_char(scanner).some \/ peek_char(scanner).x = c_newline
    THEN scanner
    ELSE skip_comment(next_char(scanner))

RECURSIVE skip_whitespace_and_comments(_)
skip_whitespace_and_comments(scanner) ==
    IF ~peek_char(scanner).some THEN scanner
    ELSE IF peek_char(scanner).x = c_hash
        THEN skip_whitespace_and_comments(skip_comment(scanner))
    ELSE IF ~is_ascii_whitespace(peek_char(scanner).x) THEN scanner
    ELSE skip_whitespace_and_comments(next_char(scanner))

keywords ==
    <<[s |-> <<98, 114, 101, 97, 107>>, t |-> "Break"],
      [s |-> <<99, 111, 110, 116, 105, 110, 117, 101>>, t |-> "Continue"],
      [s |-> <<101, 108, 115, 101>>, t |-> "Else"],
      [s |-> <<102, 97, 108, 115, 101>>, t |-> "False"],
      [s |-> <<102, 110>>, t |-> "Fn"],
      [s |-> <<102, 111, 114>>, t |-> "For"],
      [s |-> <<105, 102>>, t |-> "If"],
      [s |-> <<105, 110>>, t |-> "In"],
      [s |-> <<110, 117, 108, 108>>, t |-> "Null"],
      [s |-> <<114, 101, 116, 117, 114, 110>>, t |-> "Return"],
      [s |-> <<116, 114, 117, 101>>, t |-> "True"],
      [s |-> <<119, 104, 105, 108, 101>>, t |-> "While"]>>

\* the loop of next_keyword_or_ident
RECURSIVE scan_ident(_)
scan_ident(scanner) ==
    IF ~peek_char(scanner).some THEN scanner
    ELSE IF ~is_ascii_alphanumeric(peek_char(scanner).x)
            /\ peek_char(scanner).x # c_underscore
        THEN scanner
    ELSE scan_ident(next_char(scanner))

\* the results of the lexer's functions: the scanner they leave and the
\* token (ok) or the error
LexOk(scanner, tok) == [ok |-> TRUE, scanner |-> scanner, tok |-> tok]
LexErr(scanner, e) == [ok |-> FALSE, scanner |-> scanner, e |-> e]

next_keyword_or_ident(scanner) ==
    LET start == scanner.index
        after == scan_ident(scanner)
        end == after.index
        t == range(after, start, end)
        kw == {i \in 1 .. Len(keywords) : keywords[i].s = t}
    IN  LexOk(after,
              IF kw = {} THEN Token_Ident(t)
              ELSE Token(keywords[CHOOSE i \in kw : TRUE].t))

\* the loop of next_int
RECURSIVE scan_int(_)
scan_int(scanner) ==
    IF ~peek_char(scanner).some THEN scanner
    ELSE IF ~is_ascii_digit(peek_char(scanner).x)
            /\ peek_char(scanner).x # c_underscore
        THEN scanner
    ELSE scan_int(next_char(scanner))

\* raw_int.replace('_', "").parse::<i64>() of a string of digits and
\* underscores that starts with a digit: the value, or None on PosOverflow
RECURSIVE parse_int(_, _)
parse_int(raw_int, acc) ==
    IF raw_int = <<>> THEN Some(acc)
    ELSE IF raw_int[1] = c_underscore THEN parse_int(Tail(raw_int), acc)
    ELSE IF acc * 10 + (raw_int[1] - 48) > I64_MAX THEN None
    ELSE parse_int(Tail(raw_int), acc * 10 + (raw_int[1] - 48))

next_int(scanner) ==
    LET at == loc(scanner)
        start == scanner.index
        after == scan_int(scanner)
        end == after.index
        raw_int == range(after, start, end)
        int == parse_int(raw_int, 0)
    IN  IF int.some THEN LexOk(after, Token_IntLiteral(int.x))
        ELSE LexErr(after, LexError("IntTooHigh", at, raw_int))

\* u8::from_str_radix(&c.to_string(), 16)
from_str_radix_16(c) ==
    IF is_ascii_digit(c) THEN Some(c - 48)
    ELSE IF c \in 97 .. 102 THEN Some(c - 87)
    ELSE IF c \in 65 .. 70 THEN Some(c - 55)
    ELSE None

\* the state of next_str_literal at the head of its loop
StrScan(scanner) ==
    [scanner |-> scanner,
     chars |-> <<>>,
     state |-> "None",
     first_hex_char |-> None,
     cur_interpolation_start |-> 0,
     interpolation_slots |-> <<>>,
     interpolation_brace_count |-> 0]

\* what follows the loop of next_str_literal
str_literal_token(st, interpolate) ==
    LexOk(st.scanner,
          IF interpolate
          THEN Token_InterpStrLiteral(collect(st.chars),
                                      st.interpolation_slots)
          ELSE Token_StrLiteral(collect(st.chars)))

\* the loop of next_str_literal: one turn consumes the character c at
\* cur_loc
RECURSIVE str_literal_loop(_, _)
str_literal_loop(st, interpolate) ==
    IF ~peek_char(st.scanner).some THEN str_literal_token(st, interpolate)
    ELSE
    LET c == peek_char(st.scanner).x
        cur_loc == loc(st.scanner)
        s1 == [st EXCEPT !.scanner = next_char(st.scanner)]
        h == from_str_radix_16(c)
        count == IF c = c_brace_open THEN st.interpolation_brace_count + 1
                 ELSE IF c = c_brace_close
                     THEN st.interpolation_brace_count - 1
                 ELSE st.interpolation_brace_count
    IN  CASE st.state = "None" ->
            IF c = c_backslash
            THEN str_literal_loop([s1 EXCEPT !.state = "Escape"], interpolate)
            ELSE IF c = c_dollar
            THEN IF interpolate
                 THEN str_literal_loop(
                          [s1 EXCEPT
                              !.cur_interpolation_start = Len(st.chars),
                              !.state = "Interpolate",
                              !.chars = Append(@, c_dollar)],
                          interpolate)
                 ELSE LexErr(s1.scanner,
                             LexError("UnescapedDollar", cur_loc, 0))
            ELSE IF c = c_quote THEN str_literal_token(s1, interpolate)
            ELSE str_literal_loop([s1 EXCEPT !.chars = Append(@, c)],
                                  interpolate)
          [] st.state = "Escape" ->
            IF c \in {c_backslash, c_quote, c_dollar}
            THEN str_literal_loop(
                     [s1 EXCEPT !.chars = Append(@, c), !.state = "None"],
                     interpolate)
            ELSE IF c = c_n
            THEN str_literal_loop(
                     [s1 EXCEPT !.chars = Append(@, c_newline),
                                !.state = "None"],
                     interpolate)
            ELSE IF c = c_r
            THEN str_literal_loop(
                     [s1 EXCEPT !.chars = Append(@, c_return),
                                !.state = "None"],
                     interpolate)
            ELSE IF c = c_x
            THEN str_literal_loop([s1 EXCEPT !.state = "Hex"], interpolate)
            ELSE LexErr(s1.scanner, LexError("InvalidEscapeChar", cur_loc, c))
          [] st.state = "Hex" ->
            IF ~h.some
            THEN LexErr(s1.scanner, LexError("InvalidHexChar", cur_loc, c))
            ELSE IF ~st.first_hex_char.some
            THEN str_literal_loop([s1 EXCEPT !.first_hex_char = h],
                                  interpolate)
            ELSE str_literal_loop(
                     [s1 EXCEPT
                         !.chars = Append(@, st.first_hex_char.x * 16 + h.x),
                         !.first_hex_char = None,
                         !.state = "None"],
                     interpolate)
          [] st.state = "Interpolate" ->
            IF st.cur_interpolation_start + 1 = Len(st.chars)
               /\ c # c_brace_open
            THEN LexErr(s1.scanner,
                        LexError("InvalidInterpolationStart", cur_loc, c))
            ELSE str_literal_loop(
                     [s1 EXCEPT
                         !.interpolation_brace_count = count,
                         !.interpolation_slots =
                             IF count = 0
                             THEN Append(@, <<st.cur_interpolation_start,
                                              Len(st.chars) + 1>>)
                             ELSE @,
                         !.state = IF count = 0 THEN "None" ELSE @,
                         !.chars = Append(@, c)],
                     interpolate)

next_str_literal(scanner, interpolate) ==
    str_literal_loop(StrScan(next_char(scanner)), interpolate)

match_single_symbol_token(c) ==
    CASE c = 125 -> Some(Token("BraceClose"))
      [] c = 123 -> Some(Token("BraceOpen"))
      [] c = 93 -> Some(Token("BracketClose"))
      [] c = 91 -> Some(Token("BracketOpen"))
      [] c = 58 -> Some(Token("Colon"))
      [] c = 44 -> Some(Token("Comma"))
      [] c = 47 -> Some(Token("Div"))
      [] c = 46 -> Some(Token("Dot"))
      [] c = 61 -> Some(Token("Equals"))
      [] c = 62 -> Some(Token("GreaterThan"))
      [] c = 60 -> Some(Token("LessThan"))
      [] c = 37 -> Some(Token("Mod"))
      [] c = 42 -> Some(Token("Mul"))
      [] c = 41 -> Some(Token("ParenClose"))
      [] c = 40 -> Some(Token("ParenOpen"))
      [] c = 59 -> Some(Token("Semicolon"))
      [] c = 45 -> Some(Token("Sub"))
      [] c = 43 -> Some(Token("Sum"))
      [] OTHER -> None

match_double_symbol_token(a, b) ==
    CASE a = 38 /\ b = 38 -> Some(Token("AmpAmp"))
      [] a = 33 /\ b = 61 -> Some(Token("BangEquals"))
      [] a = 58 /\ b = 61 -> Some(Token("ColonEquals"))
      [] a = 45 /\ b = 62 -> Some(Token("DashGreaterThan"))
      [] a = 47 /\ b = 61 -> Some(Token("DivEquals"))
      [] a = 46 /\ b = 46 -> Some(Token("DotDot"))
      [] a = 61 /\ b = 61 -> Some(Token("EqualsEquals"))
      [] a = 62 /\ b = 61 -> Some(Token("GreaterThanEquals"))
      [] a = 60 /\ b = 61 -> Some(Token("LessThanEquals"))
      [] a = 37 /\ b = 61 -> Some(Token("ModEquals"))
      [] a = 42 /\ b = 61 -> Some(Token("MulEquals"))
      [] a = 124 /\ b = 124 -> Some(Token("PipePipe"))
      [] a = 45 /\ b = 61 -> Some(Token("SubEquals"))
      [] a = 43 /\ b = 61 -> Some(Token("SumEquals"))
      [] OTHER -> None

\* the scanner the function leaves and the Option<Token> it returns
next_double_symbol_token(scanner, first_char) ==
    LET s1 == next_char(scanner)
        second_char == peek_char(s1)
    IN  IF ~second_char.some THEN [scanner |-> s1, tok |-> None]
        ELSE [scanner |-> next_char(s1),
              tok |-> match_double_symbol_token(first_char, second_char.x)]

next_symbol_token(scanner, c) ==
    LET initial_t == match_single_symbol_token(c)
        s1 == next_char(scanner)
        t == IF peek_char(s1).some
             THEN match_double_symbol_token(c, peek_char(s1).x)
             ELSE None
    IN  IF ~initial_t.some THEN next_double_symbol_token(scanner, c)
        ELSE IF ~t.some THEN [scanner |-> s1, tok |-> initial_t]
        ELSE [scanner |-> next_char(s1), tok |-> t]

\* a lexer, and the item its iterator returned last
Lexer_new(chars) == [scanner |-> Scanner_new(chars), item |-> [k |-> "Start"]]

\* the token of Lexer::next, from the character c that skipping whitespace
\* and comments has reached
next_token(scanner, start_loc, c) ==
    IF is_ascii_alphabetic(c) \/ c = c_underscore
    THEN next_keyword_or_ident(scanner)
    ELSE IF is_ascii_digit(c) THEN next_int(scanner)
    ELSE IF c = c_quote THEN next_str_literal(scanner, FALSE)
    ELSE IF c = c_dollar THEN next_str_literal(next_char(scanner), TRUE)
    ELSE LET sym == next_symbol_token(scanner, c)
         IN  IF sym.tok.some THEN LexOk(sym.scanner, sym.tok.x)
             ELSE LexErr(sym.scanner, LexError("Unexpected", start_loc, c))

\* <Lexer as Iterator>::next
Lexer_next(lexer) ==
    LET skipped == skip_whitespace_and_comments(lexer.scanner)
        start_loc == loc(skipped)
        r == next_token(skipped, start_loc, peek_char(skipped).x)
        line == r.scanner.line
        col == IF peek_char(r.scanner).some /\ r.scanner.col > 0
               THEN r.scanner.col - 1
               ELSE r.scanner.col
    IN  IF ~peek_char(skipped).some
        THEN [scanner |-> skipped, item |-> [k |-> "None"]]
        ELSE IF ~r.ok
        THEN [scanner |-> r.scanner, item |-> [k |-> "Err", e |-> r.e]]
        ELSE [scanner |-> r.scanner,
              item |-> [k |-> "Ok",
                        span |-> <<start_loc, r.tok, <<line, col>>>>]]

\* the call `c`, made by one of the call_f above
interp(c) ==
    CASE c.fn = "eval_expr_to_index" ->
            eval_expr_to_index(c.a[1], c.a[2], c.a[3])
      [] c.fn = "eval_list_items" ->
            eval_list_items(c.a[1], c.a[2], c.a[3], c.a[4], c.a[5])
      [] c.fn = "eval_object_props" ->
            eval_object_props(c.a[1], c.a[2], c.a[3], c.a[4], c.a[5], c.a[6])
      [] c.fn = "eval_expr" -> eval_expr(c.a[1], c.a[2], c.a[3])
      [] c.fn = "bind_range_index" ->
            bind_range_index(c.a[1], c.a[2], c.a[3], c.a[4], c.a[5], c.a[6],
                c.a[7])
      [] c.fn = "bind_object_prop" ->
            bind_object_prop(c.a[1], c.a[2], c.a[3], c.a[4], c.a[5], c.a[6],
                c.a[7], c.a[8])
      [] c.fn = "bind_object_items" ->
            bind_object_items(c.a[1], c.a[2], c.a[3], c.a[4], c.a[5], c.a[6],
                c.a[7], c.a[8])
      [] c.fn = "bind_list_items" ->
            bind_list_items(c.a[1], c.a[2], c.a[3], c.a[4], c.a[5], c.a[6],
                c.a[7], c.a[8], c.a[9])
      [] c.fn = "bind_next" ->
            bind_next(c.a[1], c.a[2], c.a[3], c.a[4], c.a[5], c.a[6])
      [] c.fn = "eval_stmts_with_scope_stack" ->
            eval_stmts_with_scope_stack(c.a[1], c.a[2], c.a[3])
      [] c.fn = "eval_stmt" -> eval_stmt(c.a[1], c.a[2], c.a[3])

(***************************************************************************)
(* The program as a state machine.  eval_prog runs the top-level           *)
(* statements in order in the global frame; one step is one turn of that   *)
(* loop.  `prog` records the statements run so far, statement k standing   *)
(* on line k of the script.                                                *)
(***************************************************************************)
VARIABLES m, scopes, status, error, prog, exit, lex

vars == <<m, scopes, status, error, prog, exit, lex>>

\* the outermost AtLoc of an error chain: the "<line>:<col>:" that main
\* prints after the script path; <<>> if the chain has none
render_eval_error(e) ==
    LET at == {i \in 1 .. Len(e) : e[i].e = "AtLoc"}
        first == CHOOSE i \in at : \A j \in at : i <= j
    IN  IF at = {} THEN <<>> ELSE <<e[first].line, e[first].col>>

\* the kind of the error at the end of a chain
root_cause(e) == e[Len(e)].e

global_bindings ==
    <<[lhs |-> E_Var(s_print, <<0, 0>>), rhs |-> new_built_in_func(s_print)]>>

\* eval_prog from the point where eval_stmts has bound the global bindings:
\* the loop over the top-level statements `stmts`, the contexts of eval_stmts
\* and eval_prog, and eval_prog's match on the escape
eval_prog_escape(v) ==
    IF ~v.ok THEN v
    ELSE CASE v.v.k = "None" -> v
           [] v.v.k = "Break" ->
                new_loc_err(v.m, Error("BreakOutsideLoop", <<>>), v.v.loc)
           [] v.v.k = "Continue" ->
                new_loc_err(v.m, Error("ContinueOutsideLoop", <<>>), v.v.loc)
           [] v.v.k = "Return" ->
                new_loc_err(v.m, Error("ReturnOutsideFunction", <<>>),
                            v.v.loc)

eval_prog(m0, scopes0, stmts) ==
    eval_prog_escape(
        context(context(call_eval_stmts_with_scope_stack(m0, scopes0, stmts),
                        "EvalStmtsWithScopeStackFailed"),
                "EvalStmtsFailed"))

\* the state when eval_stmts has pushed the global frame and bound `print`
\* (the scripts of the evaluator are given as syntax trees: the lexer has no
\* input)
Init ==
    LET pushed == new_from_push([heap |-> <<>>, out |-> <<>>], <<>>, <<>>)
        bound == bind_new_bindings(pushed.m, pushed.scopes, global_bindings, 1)
    IN  /\ m = bound.m
        /\ scopes = pushed.scopes
        /\ status = "running"
        /\ error = <<>>
        /\ prog = <<>>
        /\ exit = 0
        /\ lex = Lexer_new(<<>>)

\* the line of the next top-level statement
ln == Len(prog) + 1

\* runs the top-level statements `stmts` of the next line of the script,
\* recorded in `prog` as (op, arg)
Ran(op, arg, r) ==
    /\ m' = r.m
    /\ error' = r.err
    /\ status' = IF error' = <<>> THEN "running"
                 ELSE IF root_cause(error') = "Panic" THEN "aborted"
                 ELSE "failed"
    \* a panic unwinds through main and ends the process with status 101
    /\ exit' = IF status' = "aborted" THEN 101 ELSE exit
    /\ prog' = Append(prog, [op |-> op, arg |-> arg])
    /\ UNCHANGED <<scopes, lex>>

RunLine(op, arg, stmts) ==
    /\ status = "running"
    /\ Len(prog) < MaxStmts
    /\ Ran(op, arg, eval_prog(m, scopes, stmts))

Run(op, arg, stmt) == RunLine(op, arg, <<stmt>>)

\* the scripts with many kinds of lines have at most this many lines
MaxLines == 4

Line(op, arg, stmts) == Len(prog) < MaxLines /\ RunLine(op, arg, stmts)
Line1(op, arg, stmt) == Line(op, arg, <<stmt>>)

\* main: the script is over, or eval_prog has failed
main ==
    /\ status \in {"running", "failed"}
    /\ status' = "exited"
    /\ exit' = IF status = "failed" THEN 103 ELSE 0
    /\ UNCHANGED <<m, scopes, error, prog, lex>>

last == prog[Len(prog)]
count(op, arg) ==
    Cardinality({i \in 1 .. Len(prog) : prog[i] = [op |-> op, arg |-> arg]})
global(name) == get(m, scopes, name)
last_out == m.out[Len(m.out)]

(***************************************************************************)
(* Script fragments.                                                       *)
(***************************************************************************)
Var(name, l, c) == E_Var(name, <<l, c>>)
Lit(n, l, c) == E_Int(n, <<l, c>>)
Args(exprs) == [i \in 1 .. Len(exprs) |-> ListItem(exprs[i], FALSE)]
Call(func, exprs, l, c) == E_Call(func, Args(exprs), <<l, c>>)
\* print(expr);
PrintStmt(expr, l) == S_Expr(Call(Var(s_print, l, 1), <<expr>>, l, 6))
\* name = name + 1;
IncStmt(name, l, c) ==
    S_Assign(Var(name, l, c),
             E_BinaryOp("Sum", <<l, c + 6>>, Var(name, l, c + 4),
                        Lit(1, l, c + 8), <<l, c + 4>>))

(***************************************************************************)
(* Closures.                                                               *)
(***************************************************************************)
\* fn make_counter() { n := 0; fn step() { n = n + 1; return n; } return step; }
DeclareMakeCounter ==
    Run("DeclareMakeCounter", <<>>,
        S_Func(s_make_counter, <<ln, 4>>, <<>>, FALSE,
               <<S_Declare(Var(s_n, ln, 21), Lit(0, ln, 26)),
                 S_Func(s_step, <<ln, 32>>, <<>>, FALSE,
                        <<IncStmt(s_n, ln, 41),
                          S_Return(<<ln, 52>>, Var(s_n, ln, 59))>>),
                 S_Return(<<ln, 64>>, Var(s_step, ln, 71))>>))

Counters == {s_c, s_d}

\* c := make_counter();
MakeCounter ==
    \E c \in Counters :
        Run("MakeCounter", c,
            S_Declare(Var(c, ln, 1), Call(Var(s_make_counter, ln, 6), <<>>, ln, 18)))

\* print(c());
CallCounter ==
    \E c \in Counters :
        Run("CallCounter", c, PrintStmt(Call(Var(c, ln, 7), <<>>, ln, 8), ln))

\* x := 0;
DeclareX == Run("DeclareX", <<>>, S_Declare(Var(s_x, ln, 1), Lit(0, ln, 6)))

\* fn g() { return x; }
DeclareGetX ==
    Run("DeclareGetX", <<>>,
        S_Func(s_g, <<ln, 4>>, <<>>, FALSE,
               <<S_Return(<<ln, 10>>, Var(s_x, ln, 17))>>))

\* x = x + 1;
IncX == Run("IncX", <<>>, IncStmt(s_x, ln, 1))

\* print(g());
CallGetX == Run("CallGetX", <<>>, PrintStmt(Call(Var(s_g, ln, 7), <<>>, ln, 8), ln))

NextClosure ==
    \/ DeclareMakeCounter
    \/ MakeCounter
    \/ CallCounter
    \/ DeclareX
    \/ DeclareGetX
    \/ IncX
    \/ CallGetX
    \/ main

SpecClosure == Init /\ [][NextClosure]_vars

\* C1: a function sees the assignments made to the frames it captured after
\* it was defined: the k-th call of a counter made by make_counter returns k,
\* and a function reading a global returns the global's current value.
C1_ClosureSharesFrames ==
    /\ (status = "running" /\ prog # <<>> /\ last.op = "CallCounter")
           => last_out = render_int(count("CallCounter", last.arg))
    /\ (status = "running" /\ prog # <<>> /\ last.op = "CallGetX")
           => last_out = render_int(count("IncX", <<>>))

\* a counter has been called three times, its third call returning 3
C1_Witness ==
    /\ status = "running"
    /\ prog # <<>>
    /\ last.op = "CallCounter"
    /\ count("CallCounter", last.arg) = 3
    /\ last_out = render_int(3)

(***************************************************************************)
(* Loops.  The scripts print what they do: 0 when a loop condition is      *)
(* evaluated, the loop variable at the end of an iteration, and the        *)
(* marker strings below.                                                   *)
(***************************************************************************)
\* "S", "B", "A", "E"
START == <<83>>
BRK == <<66>>
AFTER == <<65>>
END == <<69>>

BinOp(op, lhs, rhs, l, c) == E_BinaryOp(op, <<l, c>>, lhs, rhs, lhs.loc)
Items(exprs, l, c) == E_List(Args(exprs), FALSE, <<l, c>>)
\* if cond { stmts }
IfStmt(cond, stmts) == S_If(<<Branch(cond, stmts)>>, NoBlock)
\* the pattern `[_, name]` of a `for`
PairPattern(name, l, c) ==
    Items(<<Var(s_underscore, l, c + 1), Var(name, l, c + 4)>>, l, c)

\* fn f(x) { print(0); return x < 2; }
DeclareCond ==
    Run("DeclareCond", <<>>,
        S_Func(s_f, <<ln, 4>>, <<Var(s_x, ln, 6)>>, FALSE,
               <<PrintStmt(Lit(0, ln, 17), ln),
                 S_Return(<<ln, 21>>,
                          BinOp("Lt", Var(s_x, ln, 28), Lit(2, ln, 32), ln, 30))>>))

\* print("B"); break;
MarkedBreak(l, c) == <<PrintStmt(E_Str(BRK, <<l, c>>), l), S_Break(<<l, c + 10>>)>>

\* while f(name) { name = name + 1; if name == k { `hit` } else { print(name); } }
WhileLoop(name, k, hit, l) ==
    S_While(Call(Var(s_f, l, 20), <<Var(name, l, 22)>>, l, 21),
            <<IncStmt(name, l, 27),
              S_If(<<Branch(BinOp("Eq", Var(name, l, 41), Lit(k, l, 46), l, 43),
                            hit)>>,
                   SomeBlock(<<PrintStmt(Var(name, l, 80), l)>>))>>)

BreakAt == 1 .. 3

\* the loop scripts have at most this many lines
MaxLoopLines == 3

\* { print("S"); i := 0; while f(i) { .. print("B"); break; .. } print("A"); }
WhileBreak ==
    \E k \in BreakAt :
        Len(prog) < MaxLoopLines /\ Run("WhileBreak", <<k>>,
            S_Block(<<PrintStmt(E_Str(START, <<ln, 3>>), ln),
                      S_Declare(Var(s_i, ln, 7), Lit(0, ln, 12)),
                      WhileLoop(s_i, k, MarkedBreak(ln, 50), ln),
                      PrintStmt(E_Str(AFTER, <<ln, 90>>), ln)>>))

\* { print("S"); for [_, x] in [1, 2] { if x == k { print("B"); break; }
\*   print(x); } print("A"); }
ForBreak ==
    \E k \in BreakAt :
        Len(prog) < MaxLoopLines /\ Run("ForBreak", <<k>>,
            S_Block(<<PrintStmt(E_Str(START, <<ln, 3>>), ln),
                      S_For(PairPattern(s_x, ln, 11),
                            Items(<<Lit(1, ln, 22), Lit(2, ln, 25)>>, ln, 21),
                            <<IfStmt(BinOp("Eq", Var(s_x, ln, 36), Lit(k, ln, 41),
                                           ln, 38),
                                     MarkedBreak(ln, 45)),
                              PrintStmt(Var(s_x, ln, 70), ln)>>),
                      PrintStmt(E_Str(AFTER, <<ln, 90>>), ln)>>))

\* print("S"); for [_, a] in [1, 2] { j := 0;
\*   while f(j) { .. print("B"); break; .. } print("A"); }
\* print("E");
NestedBreak ==
    \E k \in BreakAt :
        Len(prog) < MaxLoopLines /\ RunLine("NestedBreak", <<k>>,
            <<PrintStmt(E_Str(START, <<ln, 3>>), ln),
              S_For(PairPattern(s_a, ln, 11),
                    Items(<<Lit(1, ln, 22), Lit(2, ln, 25)>>, ln, 21),
                    <<S_Declare(Var(s_j, ln, 7), Lit(0, ln, 12)),
                      WhileLoop(s_j, k, MarkedBreak(ln, 50), ln),
                      PrintStmt(E_Str(AFTER, <<ln, 90>>), ln)>>),
              PrintStmt(E_Str(END, <<ln, 99>>), ln)>>)

NextLoops ==
    \/ DeclareCond
    \/ WhileBreak
    \/ ForBreak
    \/ NestedBreak
    \/ main

SpecLoops == Init /\ [][NextLoops]_vars

\* the positions of the output that hold the text s
printed(s) == {p \in 1 .. Len(m.out) : m.out[p] = s}
\* the positions of the output written by the last line of the script
last_line == {p \in 1 .. Len(m.out) : \A q \in printed(START) : q <= p}

\* C2: what a loop prints after its `break` ran is what follows the loop: no
\* later statement of the iteration, no further evaluation of the condition
\* and no further iteration; the outer loop of a nest goes on with the
\* statement after the inner loop, once per outer iteration.
C2_BreakEndsInnermostLoop ==
    /\ \A p \in printed(BRK) : p < Len(m.out) /\ p + 1 \in printed(AFTER)
    /\ (status = "running" /\ prog # <<>> /\ last.op = "NestedBreak")
           => /\ Cardinality(last_line \cap printed(AFTER)) = 2
              /\ Len(m.out) \in printed(END)
              /\ last.arg[1] <= 2
                     => Cardinality(last_line \cap printed(BRK)) = 2

\* the inner loop of a nest has broken in its second iteration, twice
C2_Witness ==
    /\ status = "running"
    /\ prog # <<>>
    /\ last.op = "NestedBreak"
    /\ last.arg = <<2>>
    /\ Cardinality(last_line \cap printed(BRK)) = 2
    /\ Cardinality(last_line \cap printed(render_int(1))) = 2

(***************************************************************************)
(* Escapes and failures.                                                   *)
(***************************************************************************)
\* the column of an escaping statement: alone on its line, or inside
\* `if true { .. }`
EscapeCols == {1, 11}

Escaping(stmt, c) ==
    IF c = 1 THEN stmt ELSE IfStmt(E_Bool(TRUE, <<stmt.loc[1], 4>>), <<stmt>>)

\* break;   or   if true { break; }
TopBreak ==
    \E c \in EscapeCols : Run("TopBreak", <<c>>, Escaping(S_Break(<<ln, c>>), c))

\* continue;   or   if true { continue; }
TopContinue ==
    \E c \in EscapeCols :
        Run("TopContinue", <<c>>, Escaping(S_Continue(<<ln, c>>), c))

\* return 1;   or   if true { return 1; }
TopReturn ==
    \E c \in EscapeCols :
        Run("TopReturn", <<c>>,
            Escaping(S_Return(<<ln, c>>, Lit(1, ln, c + 7)), c))

\* while true { return 1; }
TopLoopReturn ==
    Run("TopLoopReturn", <<12>>,
        S_While(E_Bool(TRUE, <<ln, 7>>),
                <<S_Return(<<ln, 12>>, Lit(1, ln, 19))>>))

\* fn g() { print(4); break; }   or   fn g() { print(4); if true { break; } }
DeclareBreaking ==
    \E c \in EscapeCols :
        Run("DeclareBreaking", <<c>>,
            S_Func(s_g, <<ln, 4>>, <<>>, FALSE,
                   <<PrintStmt(Lit(4, ln, 16), ln),
                     Escaping(S_Break(<<ln, 19 + c>>), c)>>))

\* fn g() { print(4); continue; }   or the same inside `if true { .. }`
DeclareContinuing ==
    \E c \in EscapeCols :
        Run("DeclareContinuing", <<c>>,
            S_Func(s_g, <<ln, 4>>, <<>>, FALSE,
                   <<PrintStmt(Lit(4, ln, 16), ln),
                     Escaping(S_Continue(<<ln, 19 + c>>), c)>>))

\* for [_, x] in [1, 2] { print(x); g(); print(5); }
LoopCall ==
    Run("LoopCall", <<>>,
        S_For(PairPattern(s_x, ln, 5),
              Items(<<Lit(1, ln, 16), Lit(2, ln, 19)>>, ln, 15),
              <<PrintStmt(Var(s_x, ln, 30), ln),
                S_Expr(Call(Var(s_g, ln, 34), <<>>, ln, 35)),
                PrintStmt(Lit(5, ln, 45), ln)>>))

\* for [_, x] in 1 { }
ForOverInt ==
    Run("ForOverInt", <<>>, S_For(PairPattern(s_x, ln, 5), Lit(1, ln, 15), <<>>))

\* print(1, 2);
PrintTwo ==
    Run("PrintTwo", <<>>,
        S_Expr(Call(Var(s_print, ln, 1), <<Lit(1, ln, 7), Lit(2, ln, 10)>>, ln, 6)))

Printable == 1 .. 3

\* print(n);
PrintInt == \E n \in Printable : Run("PrintInt", <<n>>, PrintStmt(Lit(n, ln, 7), ln))

NextEscape ==
    \/ TopBreak
    \/ TopContinue
    \/ TopReturn
    \/ TopLoopReturn
    \/ DeclareBreaking
    \/ DeclareContinuing
    \/ LoopCall
    \/ ForOverInt
    \/ PrintTwo
    \/ PrintInt
    \/ main

SpecEscape == Init /\ [][NextEscape]_vars

\* eval_prog failed with exactly AtLoc{`cause`} at the escaping statement of
\* the last line
escaped_at_top(cause) ==
    /\ status = "failed"
    /\ Len(error) = 2
    /\ error[1].e = "AtLoc"
    /\ error[1].line = Len(prog)
    /\ error[1].col = last.arg[1]
    /\ error[2].e = cause

declared(op) == \E i \in 1 .. Len(prog) : prog[i].op = op

\* C3: an escape that reaches the top level fails the program with the error
\* of its kind at the location of the escaping statement; a call whose body
\* lets a break or continue escape fails, and the caller's loop neither ends
\* normally nor goes on.
C3_EscapesBecomeErrors ==
    (status \in {"running", "failed"} /\ prog # <<>>) =>
        /\ last.op = "TopBreak" => escaped_at_top("BreakOutsideLoop")
        /\ last.op = "TopContinue" => escaped_at_top("ContinueOutsideLoop")
        /\ last.op \in {"TopReturn", "TopLoopReturn"}
               => escaped_at_top("ReturnOutsideFunction")
        /\ (last.op = "LoopCall" /\ declared("DeclareBreaking"))
               => /\ status = "failed"
                  /\ root_cause(error) = "BreakOutsideLoop"
                  /\ last_out = render_int(4)
        /\ (last.op = "LoopCall" /\ declared("DeclareContinuing"))
               => /\ status = "failed"
                  /\ root_cause(error) = "ContinueOutsideLoop"
                  /\ last_out = render_int(4)

\* a loop has called a function whose body lets a `break` escape
C3_Witness ==
    /\ status = "failed"
    /\ last.op = "LoopCall"
    /\ declared("DeclareBreaking")
    /\ root_cause(error) = "BreakOutsideLoop"

\* C4: a failing program exits with code 103, and the error eval_prog returns
\* has an AtLoc in its chain, from which main prints "<line>:<col>:".
C4_EveryErrorHasLocation ==
    /\ status = "failed" => render_eval_error(error) # <<>>
    /\ (status = "exited" /\ error # <<>>) => exit = 103

(***************************************************************************)
(* The copy policy of writes.                                              *)
(***************************************************************************)
IndexOf(expr, n, l, c) == E_Index(expr, Lit(n, l, c + 1), <<l, c>>)
PropOf(expr, name, l, c) == E_Prop(expr, name, FALSE, <<l, c>>)

\* xs := [1, 2]; a := 1; zs := [0, 0]; o := {}; ws := [7];
Setup ==
    Line("Setup", <<>>,
        <<S_Declare(Var(s_xs, ln, 1),
                    Items(<<Lit(1, ln, 8), Lit(2, ln, 11)>>, ln, 7)),
          S_Declare(Var(s_a, ln, 15), Lit(1, ln, 20)),
          S_Declare(Var(s_zs, ln, 23),
                    Items(<<Lit(0, ln, 30), Lit(0, ln, 33)>>, ln, 29)),
          S_Declare(Var(s_o, ln, 37), E_Object(<<>>, <<ln, 42>>)),
          S_Declare(Var(s_ws, ln, 46), Items(<<Lit(7, ln, 53)>>, ln, 52))>>)

\* ys := xs;
AliasDeclare ==
    Line("AliasDeclare", <<>>,
             <<S_Declare(Var(s_ys, ln, 1), Var(s_xs, ln, 7))>>)

\* ws = xs;
AliasAssign ==
    Line("AliasAssign", <<>>, <<S_Assign(Var(s_ws, ln, 1), Var(s_xs, ln, 6))>>)

\* zs[0] = xs;
AliasSlot ==
    Line("AliasSlot", <<>>,
             <<S_Assign(IndexOf(Var(s_zs, ln, 1), 0, ln, 3), Var(s_xs, ln, 9))>>)

\* o.p = xs;   or   o["p"] = xs;
AliasProp ==
    \E by_index \in BOOLEAN :
        Line("AliasProp", <<>>,
                 <<S_Assign(IF by_index
                            THEN E_Index(Var(s_o, ln, 1), E_Str(s_p, <<ln, 3>>),
                                         <<ln, 2>>)
                            ELSE PropOf(Var(s_o, ln, 1), s_p, ln, 2),
                            Var(s_xs, ln, 10))>>)

\* oo := o;
AliasObject ==
    Line("AliasObject", <<>>, <<S_Declare(Var(s_oo, ln, 1), Var(s_o, ln, 7))>>)

\* the places a list is written through: xs, ys, ws, zs[0], o.p
ListPlace(i, l) ==
    CASE i = 0 -> Var(s_xs, l, 1)
      [] i = 1 -> Var(s_ys, l, 1)
      [] i = 2 -> Var(s_ws, l, 1)
      [] i = 3 -> IndexOf(Var(s_zs, l, 1), 0, l, 3)
      [] i = 4 -> PropOf(Var(s_o, l, 1), s_p, l, 2)

ListPlaces == 0 .. 4

\* <place>[1] = 9;
MutList ==
    \E i \in ListPlaces :
        Line("MutList", <<i>>,
                 <<S_Assign(IndexOf(ListPlace(i, ln), 1, ln, 6), Lit(9, ln, 12))>>)

\* o.r = 9;   or   oo.r = 9;
MutObject ==
    \E name \in {s_o, s_oo} :
        Line("MutObject", name,
                 <<S_Assign(PropOf(Var(name, ln, 1), s_r, ln, 3), Lit(9, ln, 8))>>)

\* b := a;
CopyDeclare ==
    Line("CopyDeclare", <<>>, <<S_Declare(Var(s_b, ln, 1), Var(s_a, ln, 6))>>)

\* zs[1] = a;
CopySlot ==
    Line("CopySlot", <<>>,
             <<S_Assign(IndexOf(Var(s_zs, ln, 1), 1, ln, 3), Var(s_a, ln, 9))>>)

\* o.q = a;
CopyProp ==
    Line("CopyProp", <<>>,
             <<S_Assign(PropOf(Var(s_o, ln, 1), s_q, ln, 2), Var(s_a, ln, 7))>>)

\* a = a + 1;
IncA == Line("IncA", <<>>, <<IncStmt(s_a, ln, 1)>>)

\* b = b + 1;
IncB == Line("IncB", <<>>, <<IncStmt(s_b, ln, 1)>>)

\* zs[1] = 5;
SetSlot ==
    Line("SetSlot", <<>>,
             <<S_Assign(IndexOf(Var(s_zs, ln, 1), 1, ln, 3), Lit(5, ln, 9))>>)

\* o.q = 5;
SetProp ==
    Line("SetProp", <<>>,
             <<S_Assign(PropOf(Var(s_o, ln, 1), s_q, ln, 2), Lit(5, ln, 7))>>)

NextCopy ==
    \/ Setup
    \/ AliasDeclare
    \/ AliasAssign
    \/ AliasSlot
    \/ AliasProp
    \/ AliasObject
    \/ MutList
    \/ MutObject
    \/ CopyDeclare
    \/ CopySlot
    \/ CopyProp
    \/ IncA
    \/ IncB
    \/ SetSlot
    \/ SetProp
    \/ main

SpecCopy == Init /\ [][NextCopy]_vars

\* what a script reads: a global, the items of a list, the properties of an
\* object
value_of(name) == global(name).v
items_of(v) == deref(m, v.v.ref).items
props_of(v) == deref(m, v.v.ref).props

\* the lines on which `op` ran, and the number of them above line p
lines_of(op) == {i \in 1 .. Len(prog) : prog[i].op = op}
last_of(ops) == CHOOSE p \in UNION {lines_of(op) : op \in ops} :
                    \A q \in UNION {lines_of(op) : op \in ops} : q <= p
count_above(op, p) == Cardinality({i \in lines_of(op) : i < p})

\* the value `a` had when it was copied on line p
copied_at(p) == new_int(1 + count_above("IncA", p))

\* C5: a list or an object stored by a declaration, an assignment, a list-slot
\* write or a property write shares storage with the value it came from, so a
\* write through either shows through the other; an int stored by any of
\* these is independent of the variable it came from.
C5_CopyPolicy ==
    (status = "running" /\ declared("Setup")) =>
        /\ declared("AliasDeclare")
               => items_of(value_of(s_ys)) = items_of(value_of(s_xs))
        /\ declared("AliasAssign")
               => items_of(value_of(s_ws)) = items_of(value_of(s_xs))
        /\ declared("AliasSlot")
               => items_of(items_of(value_of(s_zs))[1]) = items_of(value_of(s_xs))
        /\ declared("AliasProp")
               => items_of(props_of(value_of(s_o))[s_p]) = items_of(value_of(s_xs))
        /\ declared("AliasObject")
               => props_of(value_of(s_oo)) = props_of(value_of(s_o))
        /\ value_of(s_a) = new_int(1 + Cardinality(lines_of("IncA")))
        /\ declared("CopyDeclare")
               => value_of(s_b).v.n = copied_at(last_of({"CopyDeclare"})).v.n
                                      + Cardinality(lines_of("IncB"))
        /\ (declared("CopySlot") \/ declared("SetSlot"))
               => items_of(value_of(s_zs))[2] =
                      (IF prog[last_of({"CopySlot", "SetSlot"})].op = "CopySlot"
                       THEN copied_at(last_of({"CopySlot", "SetSlot"}))
                       ELSE new_int(5))
        /\ (declared("CopyProp") \/ declared("SetProp"))
               => props_of(value_of(s_o))[s_q] =
                      (IF prog[last_of({"CopyProp", "SetProp"})].op = "CopyProp"
                       THEN copied_at(last_of({"CopyProp", "SetProp"}))
                       ELSE new_int(5))

\* a list was stored in a declared variable and then written through that
\* variable, and the write shows through the variable it came from
C5_Witness ==
    /\ status = "running"
    /\ declared("AliasDeclare")
    /\ prog # <<>>
    /\ last = [op |-> "MutList", arg |-> <<1>>]
    /\ items_of(value_of(s_xs))[2] = new_int(9)

(***************************************************************************)
(* Declarations and frames.                                                *)
(***************************************************************************)
DeclNames == {s_a, s_b}
DeclValues == {1, 2}

\* name := v;
Declare ==
    \E name \in DeclNames, v \in DeclValues :
        Line1("Declare", <<name[1], v, 1>>,
            S_Declare(Var(name, ln, 1), Lit(v, ln, 6)))

\* fn name() { }
DeclareFn ==
    \E name \in DeclNames :
        Line1("DeclareFn", <<name[1], 0, 4>>,
            S_Func(name, <<ln, 4>>, <<>>, FALSE, <<>>))

\* { name := 3; print(name); }
ShadowInBlock ==
    \E name \in DeclNames :
        Line1("ShadowInBlock", <<name[1], 3, 3>>,
            S_Block(<<S_Declare(Var(name, ln, 3), Lit(3, ln, 8)),
                      PrintStmt(Var(name, ln, 17), ln)>>))

\* { fn f(name) { print(name); } f(4); }
ShadowInCall ==
    \E name \in DeclNames :
        Line1("ShadowInCall", <<name[1], 4, 8>>,
            S_Block(<<S_Func(s_f, <<ln, 6>>, <<Var(name, ln, 8)>>, FALSE,
                             <<PrintStmt(Var(name, ln, 19), ln)>>),
                      S_Expr(Call(Var(s_f, ln, 32), <<Lit(4, ln, 34)>>, ln, 33))>>))

\* { name := 1; name := 2; }
TwiceInBlock ==
    \E name \in DeclNames :
        Line1("TwiceInBlock", <<name[1], 1, 3>>,
            S_Block(<<S_Declare(Var(name, ln, 3), Lit(1, ln, 8)),
                      S_Declare(Var(name, ln, 11), Lit(2, ln, 16))>>))

NextDeclare ==
    \/ Declare
    \/ DeclareFn
    \/ ShadowInBlock
    \/ ShadowInCall
    \/ TwiceInBlock
    \/ main

SpecDeclare == Init /\ [][NextDeclare]_vars

\* the global frame
global_frame == deref(m, scopes[1]).vars

\* the lines that declare `name` in the global frame
declarations(name) ==
    {p \in lines_of("Declare") \cup lines_of("DeclareFn") : prog[p].arg[1] = name[1]}
first_declaration(name) ==
    CHOOSE p \in declarations(name) : \A q \in declarations(name) : p <= q

\* the program failed on its last line with AtLoc{`cause`} at column c
failed_at(c, cause, info) ==
    /\ status = "failed"
    /\ render_eval_error(error) = <<Len(prog), c>>
    /\ root_cause(error) = cause
    /\ error[Len(error)].info = info

\* C6: the global frame holds a name as its first declaration left it: a
\* second declaration in the same frame fails with AlreadyInScope carrying
\* the first one's location and changes nothing, and a declaration of the
\* name in an inner frame succeeds.
C6_DeclareOncePerFrame ==
    (status \in {"running", "failed"}) =>
        /\ \A name \in DeclNames :
               declarations(name) # {} =>
                   LET p == first_declaration(name)
                   IN  /\ name \in DOMAIN global_frame
                       /\ global_frame[name].loc = <<p, prog[p].arg[3]>>
                       /\ prog[p].op = "Declare"
                              => global_frame[name].v = new_int(prog[p].arg[2])
                       /\ prog[p].op = "DeclareFn"
                              => global_frame[name].v.v.t = "Func"
                       /\ \A q \in declarations(name) \ {p} :
                              /\ q = Len(prog)
                              /\ failed_at(prog[q].arg[3], "AlreadyInScope",
                                           <<name, p, prog[p].arg[3]>>)
        /\ (prog # <<>> /\ last.op \in {"ShadowInBlock", "ShadowInCall"})
               => /\ status = "running"
                  /\ last_out = render_int(last.arg[2])
        /\ (prog # <<>> /\ last.op = "TwiceInBlock")
               => failed_at(11, "AlreadyInScope",
                            <<<<last.arg[1]>>, Len(prog), 3>>)

\* a name of the global frame has been declared a second time
C6_Witness ==
    \E name \in DeclNames :
        /\ Cardinality(declarations(name)) = 2
        /\ status = "failed"
        /\ root_cause(error) = "AlreadyInScope"

\* a name of the global frame has been declared again in an inner frame
C6_WitnessShadow ==
    /\ status = "running"
    /\ prog # <<>>
    /\ last.op = "ShadowInBlock"
    /\ declarations(<<last.arg[1]>>) # {}

(***************************************************************************)
(* Destructuring binds.                                                    *)
(***************************************************************************)
PatNames == {s_a, s_b, s_underscore}
NestedNames == {s_a, s_underscore}

\* the scripts of binds have at most this many lines
MaxBindLines == 3

BindLine(op, arg, stmt) == Len(prog) < MaxBindLines /\ Run(op, arg, stmt)

\* [p1, p2, [p3, _]]
ListPattern(p1, p2, p3, l) ==
    Items(<<Var(p1, l, 2), Var(p2, l, 5),
            Items(<<Var(p3, l, 9), Var(s_underscore, l, 12)>>, l, 8)>>, l, 1)

\* [n + 1, n + 2, [n + 3, n + 4]]
ListValue(n, l) ==
    Items(<<Lit(n + 1, l, 21), Lit(n + 2, l, 24),
            Items(<<Lit(n + 3, l, 28), Lit(n + 4, l, 31)>>, l, 27)>>, l, 20)

\* [p1, p2, [p3, _]] := [1, 2, [3, 4]];
DeclareList ==
    \E p1 \in PatNames, p2 \in PatNames, p3 \in NestedNames :
        BindLine("DeclareList", <<p1[1], p2[1], p3[1]>>,
              S_Declare(ListPattern(p1, p2, p3, ln), ListValue(0, ln)))

\* [p1, p2, [p3, _]] = [5, 6, [7, 8]];
AssignList ==
    \E p1 \in PatNames, p2 \in PatNames, p3 \in NestedNames :
        BindLine("AssignList", <<p1[1], p2[1], p3[1]>>,
              S_Assign(ListPattern(p1, p2, p3, ln), ListValue(4, ln)))

\* {"x": p1, "y": [p2, _]} := {"x": 1, "y": [2, 3]};
DeclareObject ==
    \E p1 \in PatNames, p2 \in PatNames :
        BindLine("DeclareObject", <<p1[1], p2[1]>>,
              S_Declare(
                  E_Object(<<PropItem_Pair(E_Str(s_x, <<ln, 2>>), Var(p1, ln, 7)),
                             PropItem_Pair(E_Str(s_y, <<ln, 10>>),
                                           Items(<<Var(p2, ln, 16),
                                                   Var(s_underscore, ln, 19)>>,
                                                 ln, 15))>>, <<ln, 1>>),
                  E_Object(<<PropItem_Pair(E_Str(s_x, <<ln, 27>>), Lit(1, ln, 32)),
                             PropItem_Pair(E_Str(s_y, <<ln, 35>>),
                                           Items(<<Lit(2, ln, 41), Lit(3, ln, 44)>>,
                                                 ln, 40))>>, <<ln, 26>>)))

\* _ := 1;
DeclareDiscard ==
    BindLine("DeclareDiscard", <<>>, S_Declare(Var(s_underscore, ln, 1), Lit(1, ln, 6)))

\* _ = 1;
AssignDiscard ==
    BindLine("AssignDiscard", <<>>, S_Assign(Var(s_underscore, ln, 1), Lit(1, ln, 5)))

\* print(_);
ReadDiscard == BindLine("ReadDiscard", <<>>, PrintStmt(Var(s_underscore, ln, 7), ln))

NextBind ==
    \/ DeclareList
    \/ AssignList
    \/ DeclareObject
    \/ DeclareDiscard
    \/ AssignDiscard
    \/ ReadDiscard
    \/ main

SpecBind == Init /\ [][NextBind]_vars

\* the column of the i-th name of the pattern of a line
name_col(op, i) ==
    IF op = "DeclareObject" THEN (IF i = 1 THEN 7 ELSE 16)
    ELSE CASE i = 1 -> 2 [] i = 2 -> 5 [] i = 3 -> 9
\* the value a line binds to the i-th name of its pattern
bound_value(op, i) == IF op = "AssignList" THEN new_int(4 + i) ELSE new_int(i)

is_pattern(op) == op \in {"DeclareList", "AssignList", "DeclareObject"}
\* the places of the names of a pattern that repeat an earlier name
repeats(pat) ==
    {j \in 1 .. Len(pat) : pat[j] # 95 /\ \E i \in 1 .. j - 1 : pat[i] = pat[j]}
first_repeat(pat) == CHOOSE j \in repeats(pat) : \A k \in repeats(pat) : j <= k
\* the first place of the name that place j holds
first_place(pat, j) ==
    CHOOSE i \in 1 .. j : pat[i] = pat[j] /\ \A k \in 1 .. i - 1 : pat[k] # pat[j]

\* the lines whose pattern names `name`, and the last of them
binds(name) == {p \in 1 .. Len(prog) :
                   is_pattern(prog[p].op)
                   /\ \E i \in 1 .. Len(prog[p].arg) : prog[p].arg[i] = name[1]}
last_bind(name) == CHOOSE p \in binds(name) : \A q \in binds(name) : q <= p

\* the last line binds a pattern in which a name repeats, and each of its
\* names is free to be bound: the line declares on the first line of the
\* script, or assigns after `[a, b, [_, _]] := ..`
repeating_bind ==
    /\ status # "exited"
    /\ prog # <<>>
    /\ is_pattern(last.op)
    /\ repeats(last.arg) # {}
    /\ \/ Len(prog) = 1 /\ last.op # "AssignList"
       \/ /\ Len(prog) = 2
          /\ last.op = "AssignList"
          /\ prog[1] = [op |-> "DeclareList", arg |-> <<97, 98, 95>>]

\* C7: a bind whose pattern repeats a name fails with AlreadyInBinding at the
\* second occurrence of the name, which keeps the value that the first
\* occurrence bound.
C7_NoNameTwiceInBinding ==
    repeating_bind =>
        LET j == first_repeat(last.arg)
            name == <<last.arg[j]>>
        IN  /\ failed_at(name_col(last.op, j), "AlreadyInBinding", name)
            /\ value_of(name) = bound_value(last.op, first_place(last.arg, j))

\* an assignment has bound `a` twice
C7_Witness ==
    /\ repeating_bind
    /\ last.op = "AssignList"
    /\ last.arg = <<97, 95, 97>>
    /\ status = "failed"
    /\ value_of(s_a) = new_int(5)

\* the number of scope frames
frames == Cardinality({r \in 1 .. Len(m.heap) : m.heap[r].t = "Scope"})

\* C8: a bind to `_` succeeds anywhere and any number of times, binds
\* nothing and raises nothing: the only frame holds `print` and the names
\* other than `_` that the patterns bound, each with the value its last bind
\* gave it, and `_` is undefined when read.
C8_DiscardBindsNothing ==
    /\ s_underscore \notin DOMAIN global_frame
    /\ frames = 1
    /\ status = "running" =>
           /\ DOMAIN global_frame =
                  {s_print} \cup {name \in {s_a, s_b} : binds(name) # {}}
           /\ \A name \in {s_a, s_b} :
                  binds(name) # {} =>
                      LET p == last_bind(name)
                          i == CHOOSE i \in 1 .. Len(prog[p].arg) :
                                   prog[p].arg[i] = name[1]
                      IN  value_of(name) = bound_value(prog[p].op, i)
    /\ (prog # <<>> /\ last.op \in {"DeclareDiscard", "AssignDiscard"})
           => status # "failed"
    /\ (prog # <<>> /\ last.op = "DeclareList" /\ Len(prog) = 1
            /\ repeats(last.arg) = {})
           => status # "failed"
    /\ (prog # <<>> /\ status # "exited" /\ last.op = "ReadDiscard")
           => failed_at(7, "Undefined", s_underscore)
    /\ (status = "failed" /\ last.op # "ReadDiscard")
           => /\ root_cause(error) \in {"AlreadyInBinding", "Undefined"}
                  => error[Len(error)].info # s_underscore
              /\ root_cause(error) = "AlreadyInScope"
                  => error[Len(error)].info[1] # s_underscore

\* `_` has been declared three times in one pattern, and then assigned
C8_Witness ==
    /\ status = "running"
    /\ Len(prog) >= 2
    /\ prog[1] = [op |-> "DeclareList", arg |-> <<95, 95, 95>>]
    /\ last.op = "AssignDiscard"

(***************************************************************************)
(* List destructuring and list indexing.                                   *)
(***************************************************************************)
ListLens == 0 .. 4
\* the n items 11, 12, ..
xs_items(n) == [i \in 1 .. n |-> new_int(10 + i)]
plain_names == <<s_a, s_b, s_c>>

\* xs := [11, 12, ..];   with n items
DeclareXs ==
    \E n \in ListLens :
        BindLine("DeclareXs", <<n>>,
                 S_Declare(Var(s_xs, ln, 1),
                           Items([i \in 1 .. n |-> Lit(10 + i, ln, 4 + 4 * i)],
                                 ln, 7)))

\* [a, b, *rest] := xs;   with k names before the collecting one
DeclareCollect ==
    \E k \in 0 .. 2 :
        BindLine("DeclareCollect", <<k>>,
                 S_Declare(
                     E_List(Args([i \in 1 .. k |-> Var(plain_names[i], ln, 3 * i)]
                                 \o <<Var(s_rest, ln, 3 * k + 4)>>),
                            TRUE, <<ln, 1>>),
                     Var(s_xs, ln, 20)))

\* [a, b, c] := xs;   with k names
DeclareExact ==
    \E k \in 0 .. 3 :
        BindLine("DeclareExact", <<k>>,
                 S_Declare(Items([i \in 1 .. k |-> Var(plain_names[i], ln, 3 * i)],
                                 ln, 1),
                           Var(s_xs, ln, 20)))

\* rest[0] = 9;
WriteRest ==
    BindLine("WriteRest", <<>>,
             S_Assign(IndexOf(Var(s_rest, ln, 1), 0, ln, 5), Lit(9, ln, 11)))

NextDestructure ==
    \/ DeclareXs
    \/ DeclareCollect
    \/ DeclareExact
    \/ WriteRest
    \/ main

SpecDestructure == Init /\ [][NextDestructure]_vars

\* line 2 destructures the list of n items that line 1 declared
destructured(op) ==
    /\ status # "exited"
    /\ Len(prog) >= 2
    /\ prog[1].op = "DeclareXs"
    /\ prog[2].op = op
    /\ Len(prog) > 2 => status = "running"

\* the first k names hold the first k items of xs
plain_bound(k) ==
    \A i \in 1 .. k : value_of(plain_names[i]) = xs_items(prog[1].arg[1])[i]

\* C9: a pattern of k names and a collecting name binds the first k items
\* and a fresh list of the others when xs has at least k items, else it fails
\* with ListCollectTooFew; a pattern of k names binds the k items of xs when
\* xs has exactly k, else it fails with ListDestructureItemMismatch; a
\* failing pattern has bound none of its names.
C9_ListDestructure ==
    /\ destructured("DeclareCollect") =>
           LET n == prog[1].arg[1]
               k == prog[2].arg[1]
           IN  IF n >= k
               THEN /\ Len(prog) = 2 =>
                           /\ status = "running"
                           /\ plain_bound(k)
                           /\ items_of(value_of(s_rest)) =
                                  SubSeq(xs_items(n), k + 1, n)
                    /\ value_of(s_rest).v.ref # value_of(s_xs).v.ref
                    /\ items_of(value_of(s_xs)) = xs_items(n)
               ELSE /\ failed_at(1, "ListCollectTooFew", <<k + 1, n>>)
                    /\ DOMAIN global_frame = {s_print, s_xs}
    /\ destructured("DeclareExact") =>
           LET n == prog[1].arg[1]
               k == prog[2].arg[1]
           IN  IF n = k
               THEN Len(prog) = 2 => (status = "running" /\ plain_bound(k))
               ELSE /\ failed_at(1, "ListDestructureItemMismatch", <<k, n>>)
                    /\ DOMAIN global_frame = {s_print, s_xs}

\* `[a, b, *rest] := xs` has run on a list of two items, and on one of four
C9_Witness ==
    /\ destructured("DeclareCollect")
    /\ prog[1].arg = <<4>>
    /\ prog[2].arg = <<2>>
    /\ status = "running"
    /\ items_of(value_of(s_rest)) = <<new_int(13), new_int(14)>>

\* `[a, b, *rest] := xs` has failed on a list of one item
C9_WitnessTooFew ==
    /\ destructured("DeclareCollect")
    /\ prog[1].arg = <<1>>
    /\ prog[2].arg = <<2>>
    /\ status = "failed"

\* the values an index write stores: 7, null, [7]
Stored(v, l) ==
    CASE v = 0 -> Lit(7, l, 9)
      [] v = 1 -> E_Null(<<l, 9>>)
      [] v = 2 -> Items(<<Lit(7, l, 10)>>, l, 9)

\* xs[i] = v;
WriteIndex ==
    \E i \in ListLens, v \in 0 .. 2 :
        BindLine("WriteIndex", <<i, v>>,
                 S_Assign(IndexOf(Var(s_xs, ln, 1), i, ln, 3), Stored(v, ln)))

\* print(xs[i]);
ReadIndex ==
    \E i \in ListLens :
        BindLine("ReadIndex", <<i>>,
                 PrintStmt(IndexOf(Var(s_xs, ln, 7), i, ln, 9), ln))

NextIndex ==
    \/ DeclareXs
    \/ WriteIndex
    \/ ReadIndex
    \/ main

SpecIndex == Init /\ [][NextIndex]_vars

\* the items of xs
xs_now == items_of(value_of(s_xs))

\* item `item` of machine `mm` is the value v of an index write
is_stored(mm, item, v) ==
    CASE v = 0 -> item = new_int(7)
      [] v = 1 -> item = new_null
      [] v = 2 -> item.v.t = "List" /\ deref(mm, item.v.ref).items = <<new_int(7)>>

\* the error `err` is AtLoc{`cause`} at line l and column c
is_error(err, l, c, cause, info) ==
    /\ render_eval_error(err) = <<l, c>>
    /\ root_cause(err) = cause
    /\ err[Len(err)].info = info

\* a line that runs while xs is declared
indexing(op) ==
    /\ status = "running"
    /\ s_xs \in DOMAIN global_frame
    /\ Len(prog') = Len(prog) + 1
    /\ prog'[Len(prog')].op = op

\* C10: `xs[i] = v` with i < |xs| makes item i of xs the value v and leaves
\* the other items and the length as they were, and with i >= |xs| it fails
\* with OutOfListBounds and leaves xs as it was; `xs[i]` reads item i.
C10_IndexRoundTrip ==
    [][/\ indexing("WriteIndex") =>
              IF prog'[Len(prog')].arg[1] < Len(xs_now)
              THEN /\ status' = "running"
                   /\ Len(xs_now') = Len(xs_now)
                   /\ is_stored(m', xs_now'[prog'[Len(prog')].arg[1] + 1],
                                prog'[Len(prog')].arg[2])
                   /\ \A j \in 1 .. Len(xs_now) :
                          j # prog'[Len(prog')].arg[1] + 1
                              => xs_now'[j] = xs_now[j]
              ELSE /\ status' = "failed"
                   /\ is_error(error', Len(prog'), 3, "OutOfListBounds",
                               <<prog'[Len(prog')].arg[1]>>)
                   /\ xs_now' = xs_now
       /\ indexing("ReadIndex") =>
              IF prog'[Len(prog')].arg[1] < Len(xs_now)
              THEN /\ status' = "running"
                   /\ m'.out[Len(m'.out)] =
                          render(m, xs_now[prog'[Len(prog')].arg[1] + 1]).v
                   /\ xs_now' = xs_now
              ELSE /\ status' = "failed"
                   /\ is_error(error', Len(prog'), 9, "OutOfListBounds",
                               <<prog'[Len(prog')].arg[1]>>)
      ]_vars

\* 7 was written to the last item of a list of two and read back
C10_Witness ==
    /\ status = "running"
    /\ Len(prog) = 3
    /\ prog[1] = [op |-> "DeclareXs", arg |-> <<2>>]
    /\ prog[2] = [op |-> "WriteIndex", arg |-> <<1, 0>>]
    /\ prog[3] = [op |-> "ReadIndex", arg |-> <<1>>]
    /\ last_out = render_int(7)
    /\ xs_now = <<new_int(11), new_int(7)>>

(***************************************************************************)
(* Integer arithmetic.                                                     *)
(***************************************************************************)
\* two powers of two whose product is I64_MAX + 1
HalfLo == 2 ^ ((IntBits - 1) \div 2)
HalfHi == 2 ^ (IntBits - 1 - (IntBits - 1) \div 2)

\* the ends of the integer range, their neighbours, small numbers, and the
\* factors of the ends
Operands ==
    {I64_MIN, I64_MIN + 1, 0 - HalfLo, 0 - 2, 0 - 1, 0, 1, 2, HalfLo, HalfHi,
     I64_MAX - 1, I64_MAX}

ArithOps == {"Sum", "Sub", "Mul", "Div"}

\* the arithmetic scripts have at most this many lines
MaxArithLines == 1

\* print(i op j);
Arith ==
    \E op \in ArithOps, i \in Operands, j \in Operands :
        Len(prog) < MaxArithLines /\ Run("Arith", <<op, i, j>>,
            PrintStmt(BinOp(op, Lit(i, ln, 7), Lit(j, ln, 11), ln, 9), ln))

NextArith ==
    \/ Arith
    \/ main

SpecArith == Init /\ [][NextArith]_vars

\* the mathematical sum, difference or product
exact(op, i, j) ==
    CASE op = "Sum" -> i + j
      [] op = "Sub" -> i - j
      [] op = "Mul" -> i * j

\* the last line's operation has no result among the integers of the language
overflows(op, i, j) ==
    IF op = "Div"
    THEN j = 0 \/ (i = 0 - 2 ^ (IntBits - 1) /\ j = 0 - 1)
    ELSE exact(op, i, j) < 0 - 2 ^ (IntBits - 1)
            \/ exact(op, i, j) > 2 ^ (IntBits - 1) - 1

\* C11: `i + j`, `i - j` and `i * j` fail with IntOverflow iff the
\* mathematical result lies outside the integer range and yield that result
\* otherwise; `i / j` fails with IntOverflow exactly when j = 0 or i is the
\* least integer and j = -1.
C11_OverflowLaw ==
    (prog # <<>> /\ last.op = "Arith")
        => IF overflows(last.arg[1], last.arg[2], last.arg[3])
           THEN /\ error # <<>>
                /\ is_error(error, Len(prog), 9, "IntOverflow", last.arg)
           ELSE /\ error = <<>>
                /\ last.arg[1] # "Div"
                       => last_out = render_int(exact(last.arg[1], last.arg[2],
                                                      last.arg[3]))

\* the least integer was divided by -1, and that failed
C11_Witness ==
    /\ prog # <<>>
    /\ last = [op |-> "Arith", arg |-> <<"Div", I64_MIN, 0 - 1>>]
    /\ status = "failed"
    /\ root_cause(error) = "IntOverflow"

(***************************************************************************)
(* Equality.                                                               *)
(***************************************************************************)
\* closed expressions without side effects, written at line l and column c:
\* null, true, 7, "a", [1, [2]], {"a": [1]}, print, fn() { }, [print],
\* {"a": fn() { }}
EqShapes == 1 .. 10

EqShape(e, l, c) ==
    CASE e = 1 -> E_Null(<<l, c>>)
      [] e = 2 -> E_Bool(TRUE, <<l, c>>)
      [] e = 3 -> Lit(7, l, c)
      [] e = 4 -> E_Str(s_a, <<l, c>>)
      [] e = 5 -> Items(<<Lit(1, l, c + 1), Items(<<Lit(2, l, c + 5)>>, l, c + 4)>>,
                        l, c)
      [] e = 6 -> E_Object(<<PropItem_Pair(E_Str(s_a, <<l, c + 1>>),
                                           Items(<<Lit(1, l, c + 7)>>, l, c + 6))>>,
                           <<l, c>>)
      [] e = 7 -> Var(s_print, l, c)
      [] e = 8 -> E_Func(<<>>, FALSE, <<>>, <<l, c>>)
      [] e = 9 -> Items(<<Var(s_print, l, c + 1)>>, l, c)
      [] e = 10 -> E_Object(<<PropItem_Pair(E_Str(s_a, <<l, c + 1>>),
                                            E_Func(<<>>, FALSE, <<>>, <<l, c + 6>>))>>,
                            <<l, c>>)

EqOps == {"Eq", "Ne"}

\* the equality scripts have at most this many lines
MaxEqLines == 3

\* print(e == e);   or   print(e != e);
CompareExpr ==
    \E op \in EqOps, e \in EqShapes :
        Len(prog) < MaxEqLines /\ Run("CompareExpr", <<op, e>>,
            PrintStmt(BinOp(op, EqShape(e, ln, 7), EqShape(e, ln, 30), ln, 27), ln))

\* x := e;
DeclareShape ==
    \E e \in EqShapes :
        Len(prog) < MaxEqLines /\ prog = <<>> /\ Run("DeclareShape", <<e>>,
            S_Declare(Var(s_x, ln, 1), EqShape(e, ln, 6)))

\* print(x == x);   or   print(x != x);
CompareVar ==
    \E op \in EqOps :
        Len(prog) < MaxEqLines /\ prog # <<>> /\ prog[1].op = "DeclareShape"
            /\ Run("CompareVar", <<op, prog[1].arg[1]>>,
                   PrintStmt(BinOp(op, Var(s_x, ln, 7), Var(s_x, ln, 12), ln, 9), ln))

NextEq ==
    \/ CompareExpr
    \/ DeclareShape
    \/ CompareVar
    \/ main

SpecEq == Init /\ [][NextEq]_vars

\* C12: for every value v a closed expression without side effects can
\* produce, functions and built-in functions among them, `v == v` evaluates to
\* true and `v != v` to false.
C12_EqReflexive ==
    (prog # <<>> /\ last.op \in {"CompareExpr", "CompareVar"})
        => /\ error = <<>>
           /\ last_out = IF last.arg[1] = "Eq" THEN b_true ELSE b_false

(***************************************************************************)
(* Iteration order.                                                        *)
(***************************************************************************)
\* the keys "a", "ab", "b" and "B"
IterKeys == {s_a, s_a \o s_b, s_b, <<66>>}

\* the orders in which one to three keys are written in an object literal
KeyOrders ==
    {ks \in UNION {[1 .. n -> IterKeys] : n \in 1 .. 3} :
        \A i \in DOMAIN ks, j \in DOMAIN ks : i # j => ks[i] # ks[j]}

\* the iteration scripts have at most this many lines
MaxIterLines == 3

IterLine(op, arg, stmt) == Len(prog) < MaxIterLines /\ Run(op, arg, stmt)

\* o := {"k1": 1, "k2": 2, ..};
DeclareO ==
    \E ks \in KeyOrders :
        prog = <<>> /\ IterLine("DeclareO", ks,
            S_Declare(Var(s_o, ln, 1),
                      E_Object([i \in DOMAIN ks |->
                                   PropItem_Pair(E_Str(ks[i], <<ln, 10 * i>>),
                                                 Lit(i, ln, 10 * i + 6))],
                               <<ln, 6>>)))

\* the first line declared o
o_declared == prog # <<>> /\ prog[1].op = "DeclareO"

\* o["k"] = 9;
InsertKey ==
    \E k \in IterKeys :
        o_declared /\ IterLine("InsertKey", k,
            S_Assign(E_Index(Var(s_o, ln, 1), E_Str(k, <<ln, 3>>), <<ln, 2>>),
                     Lit(9, ln, 11)))

\* for [k, v] in `iter` { print(k); print(v); }
ForPairs(iter, l) ==
    S_For(Items(<<Var(s_k, l, 6), Var(s_y, l, 9)>>, l, 5), iter,
          <<PrintStmt(Var(s_k, l, 30), l), PrintStmt(Var(s_y, l, 40), l)>>)

\* for [k, v] in o { print(k); print(v); }
ForObject ==
    o_declared /\ IterLine("ForObject", <<>>, ForPairs(Var(s_o, ln, 15), ln))

\* print(o);
PrintObject ==
    o_declared /\ IterLine("PrintObject", <<>>, PrintStmt(Var(s_o, ln, 7), ln))

IterLens == 0 .. 3

\* for [k, v] in [11, .., 10 + n] { print(k); print(v); }
ForList ==
    \E n \in IterLens :
        IterLine("ForList", <<n>>,
            ForPairs(Items([i \in 1 .. n |-> Lit(10 + i, ln, 13 + 4 * i)], ln, 15),
                     ln))

IterStrs == {<<>>, s_a, s_b \o s_a, s_xs \o s_a}

\* for [k, v] in "s" { print(k); print(v); }
ForStr ==
    \E s \in IterStrs :
        IterLine("ForStr", s, ForPairs(E_Str(s, <<ln, 15>>), ln))

NextIter ==
    \/ DeclareO
    \/ InsertKey
    \/ ForObject
    \/ PrintObject
    \/ ForList
    \/ ForStr
    \/ main

SpecIter == Init /\ [][NextIter]_vars

\* the string a comes before the string b: at the first byte where they
\* differ a has the smaller one, or a is a proper prefix of b
precedes(a, b) ==
    \E p \in 1 .. Len(b) :
        /\ \A q \in 1 .. p - 1 : q <= Len(a) /\ a[q] = b[q]
        /\ p > Len(a) \/ a[p] < b[p]

\* the keys of the object o in ascending order
ascending_keys ==
    CHOOSE ks \in [1 .. Cardinality(DOMAIN props_of(value_of(s_o)))
                     -> DOMAIN props_of(value_of(s_o))] :
        \A i \in 1 .. Len(ks) - 1 : precedes(ks[i], ks[i + 1])

RECURSIVE concat(_)
concat(seqs) == IF seqs = <<>> THEN <<>> ELSE seqs[1] \o concat(Tail(seqs))

\* what the step printed
printed_by_step == SubSeq(m'.out, Len(m.out) + 1, Len(m'.out))

\* a line `op` runs
iterating(op) ==
    /\ status = "running"
    /\ Len(prog') = Len(prog) + 1
    /\ prog'[Len(prog')].op = op

\* C13: a `for` loop visits a list as (0, xs[0]), (1, xs[1]), .. and a string
\* as (byte index, one-byte string) in index order, and an object as
\* (key, value) in ascending key order; `print` of an object lists the
\* properties in that same order, whatever the order in which the keys were
\* written or inserted.
C13_IterationOrder ==
    [][/\ iterating("ForList") =>
              /\ status' = "running"
              /\ printed_by_step =
                     [p \in 1 .. 2 * prog'[Len(prog')].arg[1] |->
                         IF p % 2 = 1 THEN render_int((p - 1) \div 2)
                         ELSE render_int(10 + p \div 2)]
       /\ iterating("ForStr") =>
              /\ status' = "running"
              /\ printed_by_step =
                     [p \in 1 .. 2 * Len(prog'[Len(prog')].arg) |->
                         IF p % 2 = 1 THEN render_int((p - 1) \div 2)
                         ELSE <<prog'[Len(prog')].arg[p \div 2]>>]
       /\ iterating("ForObject") =>
              /\ status' = "running"
              /\ printed_by_step =
                     [p \in 1 .. 2 * Len(ascending_keys) |->
                         IF p % 2 = 1 THEN ascending_keys[(p + 1) \div 2]
                         ELSE render_int(
                                  props_of(value_of(s_o))[ascending_keys[p \div 2]].v.n)]
       /\ iterating("PrintObject") =>
              /\ status' = "running"
              /\ printed_by_step =
                     <<<<123, 10>>
                       \o concat([i \in 1 .. Len(ascending_keys) |->
                              <<32, 32, 32, 32, 34>> \o ascending_keys[i]
                              \o <<34, 58, 32>>
                              \o render_int(
                                     props_of(value_of(s_o))[ascending_keys[i]].v.n)
                              \o <<44, 10>>])
                       \o <<125>>>>
      ]_vars

\* an object written as {"b": 1, "B": 2, "a": 3} and then given the key "ab"
\* was visited as ("B", 2), ("a", 3), ("ab", 9), ("b", 1)
C13_Witness ==
    /\ status = "running"
    /\ prog = <<[op |-> "DeclareO", arg |-> <<s_b, <<66>>, s_a>>],
                [op |-> "InsertKey", arg |-> s_a \o s_b],
                [op |-> "ForObject", arg |-> <<>>]>>
    /\ m.out = <<<<66>>, render_int(2), s_a, render_int(3), s_a \o s_b,
                 render_int(9), s_b, render_int(1)>>

(***************************************************************************)
(* Type functions: len.                                                    *)
(***************************************************************************)
\* "", "a", "xsa", U+00E9 (two bytes), and the bytes of "\xff" and "a\x80",
\* which are not UTF-8
LenStrs == {<<>>, s_a, s_xs \o s_a, <<195, 169>>, <<255>>, <<97, 128>>}

LenLists == 0 .. 3

\* the len scripts have at most this many lines
MaxLenLines == 3

\* `expr`.:len()
LenOf(expr, l, c) == Call(E_Prop(expr, b_len, TRUE, <<l, c>>), <<>>, l, c + 5)

\* print("s".:len());
StrLen ==
    \E s \in LenStrs :
        Len(prog) < MaxLenLines /\ Run("StrLen", s,
            PrintStmt(LenOf(E_Str(s, <<ln, 7>>), ln, 12), ln))

\* print([11, .., 10 + n].:len());
ListLen ==
    \E n \in LenLists :
        Len(prog) < MaxLenLines /\ Run("ListLen", <<n>>,
            PrintStmt(LenOf(Items([i \in 1 .. n |-> Lit(10 + i, ln, 4 + 4 * i)],
                                  ln, 7), ln, 20), ln))

NextLen ==
    \/ StrLen
    \/ ListLen
    \/ main

SpecLen == Init /\ [][NextLen]_vars

\* C14: for every list xs, `xs.len()` through the type namespace is the number
\* of its items, and for every string s, `s.len()` is the number of its bytes.
C14_LenCounts ==
    /\ (prog # <<>> /\ last.op = "StrLen")
           => error = <<>> /\ last_out = render_int(Len(last.arg))
    /\ (prog # <<>> /\ last.op = "ListLen")
           => error = <<>> /\ last_out = render_int(last.arg[1])

(***************************************************************************)
(* The receiver of a call.                                                 *)
(***************************************************************************)
\* the receiver scripts have at most this many lines
MaxThisLines == 4

\* a line of a receiver script; each kind of line is written once, after the
\* first line
ThisLine(op, stmts) ==
    /\ Len(prog) < MaxThisLines
    /\ prog # <<>>
    /\ count(op, <<>>) = 0
    /\ RunLine(op, <<>>, stmts)

\* this.n
ThisN(l, c) == PropOf(Var(s_this, l, c), s_n, l, c + 4)

\* o.f
MethodOfO(l, c) == PropOf(Var(s_o, l, c), s_f, l, c + 1)

\* 5.:type
TypeOfFive(l, c) == E_Prop(Lit(5, l, c), b_type, TRUE, <<l, c + 1>>)

\* o := {"n": 5, "f": fn() { print(this.n); }}; fn p() { return o.f; }
DeclareMethod ==
    /\ prog = <<>>
    /\ RunLine("DeclareMethod", <<>>,
           <<S_Declare(Var(s_o, ln, 1),
                       E_Object(<<PropItem_Pair(E_Str(s_n, <<ln, 7>>), Lit(5, ln, 12)),
                                  PropItem_Pair(
                                      E_Str(s_f, <<ln, 15>>),
                                      E_Func(<<>>, FALSE,
                                             <<PrintStmt(ThisN(ln, 35), ln)>>,
                                             <<ln, 20>>))>>,
                                <<ln, 6>>)),
             S_Func(s_p, <<ln, 53>>, <<>>, FALSE,
                    <<S_Return(<<ln, 59>>, MethodOfO(ln, 66))>>)>>)

\* o.f();
CallProp ==
    ThisLine("CallProp", <<S_Expr(Call(MethodOfO(ln, 1), <<>>, ln, 4))>>)

\* g := o.f; g();
CallVar ==
    ThisLine("CallVar",
             <<S_Declare(Var(s_g, ln, 1), MethodOfO(ln, 6)),
               S_Expr(Call(Var(s_g, ln, 11), <<>>, ln, 12))>>)

\* xs := [o.f]; xs[0]();
CallSlot ==
    ThisLine("CallSlot",
             <<S_Declare(Var(s_xs, ln, 1), Items(<<MethodOfO(ln, 8)>>, ln, 7)),
               S_Expr(Call(IndexOf(Var(s_xs, ln, 14), 0, ln, 16), <<>>, ln, 19))>>)

\* k := p(); k();
CallReturned ==
    ThisLine("CallReturned",
             <<S_Declare(Var(s_k, ln, 1), Call(Var(s_p, ln, 6), <<>>, ln, 7)),
               S_Expr(Call(Var(s_k, ln, 11), <<>>, ln, 12))>>)

\* fn q() { print(this.n); } q();
CallPlain ==
    ThisLine("CallPlain",
             <<S_Func(s_q, <<ln, 4>>, <<>>, FALSE, <<PrintStmt(ThisN(ln, 16), ln)>>),
               S_Expr(Call(Var(s_q, ln, 30), <<>>, ln, 31))>>)

\* print(5.:type());
CallType ==
    ThisLine("CallType",
             <<PrintStmt(Call(TypeOfFive(ln, 7), <<>>, ln, 14), ln)>>)

\* t := 5.:type; print(t());
CallTypeVar ==
    ThisLine("CallTypeVar",
             <<S_Declare(Var(s_t, ln, 1), TypeOfFive(ln, 6)),
               PrintStmt(Call(Var(s_t, ln, 21), <<>>, ln, 22), ln)>>)

NextThis ==
    \/ DeclareMethod
    \/ CallProp
    \/ CallVar
    \/ CallSlot
    \/ CallReturned
    \/ CallPlain
    \/ CallType
    \/ CallTypeVar
    \/ main

SpecThis == Init /\ [][NextThis]_vars

\* the last line called a user function that had `this`: it printed this.n
called_with_this == error = <<>> /\ last_out = render_int(5)

\* the last line called a user function that had no `this`
called_without_this ==
    /\ error # <<>>
    /\ root_cause(error) = "Undefined"
    /\ error[Len(error)].info = s_this

\* C15: a call binds or passes `this` iff the callee expression of that very
\* call is a property or type-property access: a function value obtained by a
\* property access and then stored in a variable or a list element, or
\* returned from a function, is called without `this` when it is called
\* through that variable or element.
C15_ReceiverOnlyAtCallSite ==
    /\ (prog # <<>> /\ last.op = "CallProp") => called_with_this
    /\ (prog # <<>> /\ last.op = "CallType")
           => error = <<>> /\ last_out = <<105, 110, 116>>
    /\ (prog # <<>> /\ last.op \in {"CallVar", "CallSlot", "CallReturned", "CallPlain"})
           => called_without_this
    /\ (prog # <<>> /\ last.op = "CallTypeVar")
           => error # <<>> /\ root_cause(error) = "Dev"

(***************************************************************************)
(* Calls of built-in functions.                                            *)
(***************************************************************************)
\* the built-in called: print, <type>->type, str->len
DevBuiltins == {"print", "type", "len"}

\* how the call reaches it: by its own name (`print`, `7.:type`, `"a".:len`),
\* as a property of an object holding it, as an index of that object, or
\* through a variable holding it
DevShapes == {"name", "prop", "index", "alias"}

DevArgs == 0 .. 2

\* the built-in scripts have at most this many lines
MaxDevLines == 3

\* the name of the property and of the variable that hold built-in b
holder(b) == CASE b = "print" -> s_p [] b = "type" -> s_t [] b = "len" -> s_q

\* the built-in b by its own name
Builtin(b, l, c) ==
    CASE b = "print" -> Var(s_print, l, c)
      [] b = "type" -> E_Prop(Lit(7, l, c), b_type, TRUE, <<l, c + 1>>)
      [] b = "len" -> E_Prop(E_Str(s_a, <<l, c>>), b_len, TRUE, <<l, c + 3>>)

\* p := print; t := 7.:type; q := "a".:len;
\* o := {"p": print, "t": 7.:type, "q": "a".:len};
DeclareHolder ==
    /\ prog = <<>>
    /\ RunLine("DeclareHolder", <<>>,
           <<S_Declare(Var(s_p, ln, 1), Builtin("print", ln, 6)),
             S_Declare(Var(s_t, ln, 13), Builtin("type", ln, 18)),
             S_Declare(Var(s_q, ln, 27), Builtin("len", ln, 32)),
             S_Declare(Var(s_o, ln, 42),
                       E_Object(<<PropItem_Pair(E_Str(s_p, <<ln, 48>>),
                                                Builtin("print", ln, 53)),
                                  PropItem_Pair(E_Str(s_t, <<ln, 60>>),
                                                Builtin("type", ln, 65)),
                                  PropItem_Pair(E_Str(s_q, <<ln, 74>>),
                                                Builtin("len", ln, 79))>>,
                                <<ln, 47>>))>>)

\* the callee of a call of built-in b reached by shape
Callee(b, shape, l) ==
    CASE shape = "name" -> Builtin(b, l, 1)
      [] shape = "prop" -> PropOf(Var(s_o, l, 1), holder(b), l, 2)
      [] shape = "index" ->
             E_Index(Var(s_o, l, 1), E_Str(holder(b), <<l, 3>>), <<l, 2>>)
      [] shape = "alias" -> Var(holder(b), l, 1)

\* callee();   callee(1);   callee(1, 2);
CallBuiltin ==
    \E b \in DevBuiltins, shape \in DevShapes, n \in DevArgs :
        /\ Len(prog) < MaxDevLines
        /\ prog # <<>>
        /\ Run("CallBuiltin", <<b, shape, n>>,
               S_Expr(Call(Callee(b, shape, ln),
                           [i \in 1 .. n |-> Lit(i, ln, 10 + 3 * i)], ln, 10)))

NextDev ==
    \/ DeclareHolder
    \/ CallBuiltin
    \/ main

SpecDev == Init /\ [][NextDev]_vars

\* C16: no program makes evaluation fail with a Dev error: a call of a
\* built-in, through whatever expression its value was reached, succeeds or
\* fails with another error.
C16_NoDevError == \A i \in 1 .. Len(error) : error[i].e # "Dev"

(***************************************************************************)
(* `&&` and `||`.                                                          *)
(***************************************************************************)
LogicOps == {"And", "Or"}

\* an operand: say(n, true), say(n, false), say(n, 7), or the undefined
\* variable zs
LogicOperands == {"T", "F", "I", "E"}

\* the logic scripts have at most this many lines
MaxLogicLines == 3

LogicOperand(kind, n, l, c) ==
    CASE kind = "T" ->
             Call(Var(s_s, l, c), <<Lit(n, l, c + 2), E_Bool(TRUE, <<l, c + 5>>)>>,
                  l, c + 1)
      [] kind = "F" ->
             Call(Var(s_s, l, c), <<Lit(n, l, c + 2), E_Bool(FALSE, <<l, c + 5>>)>>,
                  l, c + 1)
      [] kind = "I" ->
             Call(Var(s_s, l, c), <<Lit(n, l, c + 2), Lit(7, l, c + 5)>>, l, c + 1)
      [] kind = "E" -> Var(s_zs, l, c)

\* fn s(n, v) { print(n); return v; }
DeclareSay ==
    /\ prog = <<>>
    /\ Run("DeclareSay", <<>>,
           S_Func(s_s, <<ln, 4>>, <<Var(s_n, ln, 6), Var(s_x, ln, 9)>>, FALSE,
                  <<PrintStmt(Var(s_n, ln, 20), ln),
                    S_Return(<<ln, 24>>, Var(s_x, ln, 31))>>))

\* print(a && b);   or   print(a || b);
Logic ==
    \E op \in LogicOps, a \in LogicOperands, b \in LogicOperands :
        /\ Len(prog) < MaxLogicLines
        /\ prog # <<>>
        /\ Run("Logic", <<op, a, b>>,
               PrintStmt(BinOp(op, LogicOperand(a, 1, ln, 7),
                               LogicOperand(b, 2, ln, 30), ln, 27), ln))

NextLogic ==
    \/ DeclareSay
    \/ Logic
    \/ main

SpecLogic == Init /\ [][NextLogic]_vars

\* the boolean an operand yields
truth(kind) == kind = "T"

\* C17: `&&` and `||` evaluate both operands, left then right, before the
\* operator is applied: the right operand prints and fails also when the left
\* one decides the result; the result is the conjunction or disjunction of
\* two booleans, and InvalidOpTypes otherwise.
C17_LogicIsEager ==
    [][iterating("Logic") =>
          LET op == prog'[Len(prog')].arg[1]
              a == prog'[Len(prog')].arg[2]
              b == prog'[Len(prog')].arg[3]
          IN  CASE a = "E" ->
                       /\ printed_by_step = <<>>
                       /\ is_error(error', Len(prog'), 7, "Undefined", s_zs)
                [] a # "E" /\ b = "E" ->
                       /\ printed_by_step = <<render_int(1)>>
                       /\ is_error(error', Len(prog'), 30, "Undefined", s_zs)
                [] a # "E" /\ b # "E" /\ "I" \in {a, b} ->
                       /\ printed_by_step = <<render_int(1), render_int(2)>>
                       /\ render_eval_error(error') = <<Len(prog'), 27>>
                       /\ root_cause(error') = "InvalidOpTypes"
                [] OTHER ->
                       /\ error' = <<>>
                       /\ printed_by_step =
                              <<render_int(1), render_int(2),
                                IF (op = "And" /\ truth(a) /\ truth(b))
                                       \/ (op = "Or" /\ (truth(a) \/ truth(b)))
                                THEN b_true ELSE b_false>>
     ]_vars

\* `s(1, false) && s(2, true)` printed 1, then 2, then false
C17_Witness ==
    /\ prog = <<[op |-> "DeclareSay", arg |-> <<>>],
                [op |-> "Logic", arg |-> <<"And", "F", "T">>]>>
    /\ m.out = <<render_int(1), render_int(2), b_false>>
    /\ status = "running"

(***************************************************************************)
(* The lexer as a state machine: run() hands Lexer::new(&src) to the       *)
(* parser, which draws the tokens from it one call of next() at a time     *)
(* until the iterator ends or returns an error.                            *)
(***************************************************************************)
\* the longest source text over LexAlphabet
MaxSrcLen == 4

\* a letter, a digit, `;`, `=`, `!`, a space, a newline and `#`
LexAlphabet == {97, 49, 59, 61, 33, 32, c_newline, c_hash}
PlainSources == UNION {[1 .. k -> LexAlphabet] : k \in 0 .. MaxSrcLen}

\* what precedes a slot in an interpolated literal: nothing, `a`, U+00E9,
\* `\xff`, `\x41`, `\n`, `\$`
InterpPrefixes ==
    {<<>>, <<97>>, <<233>>, <<c_backslash, c_x, 102, 102>>,
     <<c_backslash, c_x, 52, 49>>, <<c_backslash, c_n>>,
     <<c_backslash, c_dollar>>}
\* the expression texts of a slot: `a`, `{}`, U+00E9
InterpExprs == {<<97>>, <<c_brace_open, c_brace_close>>, <<233>>}
\* what follows an interpolated literal: nothing, ` a`, a newline
InterpFollows == {<<>>, <<32, 97>>, <<c_newline>>}

interp_slot(expr) == <<c_dollar, c_brace_open>> \o expr \o <<c_brace_close>>

\* $"<pre>${<e1>}<mid>${<e2>}" and $"<pre>${<e1>}<mid>"
InterpSources ==
    {<<c_dollar, c_quote>> \o pre \o interp_slot(e1) \o mid \o rest
        \o <<c_quote>> \o follow :
        pre \in InterpPrefixes, e1 \in InterpExprs, mid \in InterpPrefixes,
        rest \in {<<>>} \cup {interp_slot(e2) : e2 \in InterpExprs},
        follow \in InterpFollows}

\* the state of run() when it has read the script `src`
InitLexer ==
    /\ m = [heap |-> <<>>, out |-> <<>>]
    /\ scopes = <<>>
    /\ status = "parsing"
    /\ error = <<>>
    /\ prog = <<>>
    /\ exit = 0
    /\ lex \in {Lexer_new(src) : src \in PlainSources \cup InterpSources}

\* the parser draws the next token
NextToken ==
    /\ status = "parsing"
    /\ lex.item.k \in {"Start", "Ok"}
    /\ lex' = Lexer_next(lex)
    /\ UNCHANGED <<m, scopes, status, error, prog, exit>>

\* run() returns ParseFailed for the lexer's error and main exits
ParseFailed ==
    /\ status = "parsing"
    /\ lex.item.k = "Err"
    /\ status' = "exited"
    /\ exit' = 103
    /\ UNCHANGED <<m, scopes, error, prog, lex>>

NextLexer == NextToken \/ ParseFailed

SpecLexer == InitLexer /\ [][NextLexer]_vars

\* the token the lexer has just emitted
emitted == lex.item.span[2]

\* C18: for every interpolated string literal the lexer emits, each slot
\* (start, end) is a byte span of the token's string s with
\* s[start..start+2] = "${" and s[end-1] = "}", whatever precedes the slot
C18_SlotsAreByteSpans ==
    (lex.item.k = "Ok" /\ emitted.t = "InterpStrLiteral") =>
        \A i \in 1 .. Len(emitted.slots) :
            LET start == emitted.slots[i][1]
                end == emitted.slots[i][2]
            IN  /\ start + 2 <= end - 1
                /\ end <= Len(emitted.s)
                /\ SubSeq(emitted.s, start + 1, start + 2)
                       = <<c_dollar, c_brace_open>>
                /\ emitted.s[end] = c_brace_close

\* the (line, col) of the k-th character of a source text: the line is 1
\* plus the number of newlines before the character, the col its 1-based
\* position within that line
char_loc(src, k) ==
    LET newlines == {i \in 1 .. k - 1 : src[i] = c_newline}
        line_start == IF newlines = {} THEN 0
                      ELSE CHOOSE i \in newlines : \A j \in newlines : j <= i
    IN  <<1 + Cardinality(newlines), k - line_start>>

\* the positions in the source of the first and the last character of the
\* token that a call of next() emits: whitespace and comments are skipped
\* up to the first, and the scanner is left on the character after the last
first_char(lexer) == skip_whitespace_and_comments(lexer.scanner).chars
last_char(lexer) ==
    IF peek_char(lexer.scanner).some THEN lexer.scanner.chars - 1
    ELSE Len(lexer.scanner.raw_chars)

\* C19: every token the lexer emits carries as start the (line, col) of its
\* first character and as end the (line, col) of its last character,
\* whatever follows the token and whatever the input begins with
C19_TokenLocations ==
    [][(NextToken /\ lex'.item.k = "Ok") =>
        /\ lex'.item.span[1] = char_loc(lex.scanner.raw_chars, first_char(lex))
        /\ lex'.item.span[3] = char_loc(lex.scanner.raw_chars, last_char(lex'))
      ]_vars

(***************************************************************************)
(* Escapes out of a bare block.                                            *)
(***************************************************************************)
\* the statement that holds the escaping statements: the branch of
\* `if true { .. }` or a bare block `{ .. }`
HolderKinds == {"if", "block"}
Held(kind, stmts, l, c) ==
    IF kind = "if" THEN IfStmt(E_Bool(TRUE, <<l, c>>), stmts)
    ELSE S_Block(stmts)

\* the number of iterations the condition of a `while` allows
BlockIters == 1 .. 2
\* the values a function returns
BlockRets == 1 .. 2

\* the block scripts have at most this many lines
MaxBlockLines == 3

\* { print("S"); i := 0;
\*   while i < n { i = i + 1; <held> { print("B"); break; } print(i); }
\*   print("A"); }
BreakInWhile ==
    \E kind \in HolderKinds, n \in BlockIters :
        Len(prog) < MaxBlockLines /\ Run("BreakInWhile", <<kind, n>>,
            S_Block(<<PrintStmt(E_Str(START, <<ln, 3>>), ln),
                      S_Declare(Var(s_i, ln, 7), Lit(0, ln, 12)),
                      S_While(BinOp("Lt", Var(s_i, ln, 20), Lit(n, ln, 24),
                                    ln, 22),
                              <<IncStmt(s_i, ln, 27),
                                Held(kind, MarkedBreak(ln, 50), ln, 40),
                                PrintStmt(Var(s_i, ln, 80), ln)>>),
                      PrintStmt(E_Str(AFTER, <<ln, 90>>), ln)>>))

\* { print("S");
\*   for [_, x] in [1, 2] { <held> { continue; } print(x); }
\*   print("A"); }
ContinueInFor ==
    \E kind \in HolderKinds :
        Len(prog) < MaxBlockLines /\ Run("ContinueInFor", <<kind>>,
            S_Block(<<PrintStmt(E_Str(START, <<ln, 3>>), ln),
                      S_For(PairPattern(s_x, ln, 11),
                            Items(<<Lit(1, ln, 22), Lit(2, ln, 25)>>, ln, 21),
                            <<Held(kind, <<S_Continue(<<ln, 45>>)>>, ln, 40),
                              PrintStmt(Var(s_x, ln, 70), ln)>>),
                      PrintStmt(E_Str(AFTER, <<ln, 90>>), ln)>>))

\* { print("S"); fn f() { <held> { return v; } return 0; } print(f()); }
ReturnInFunc ==
    \E kind \in HolderKinds, v \in BlockRets :
        Len(prog) < MaxBlockLines /\ Run("ReturnInFunc", <<kind, v>>,
            S_Block(<<PrintStmt(E_Str(START, <<ln, 3>>), ln),
                      S_Func(s_f, <<ln, 14>>, <<>>, FALSE,
                             <<Held(kind,
                                    <<S_Return(<<ln, 30>>, Lit(v, ln, 37))>>,
                                    ln, 25),
                               S_Return(<<ln, 45>>, Lit(0, ln, 52))>>),
                      PrintStmt(Call(Var(s_f, ln, 66), <<>>, ln, 67), ln)>>))

NextBlock ==
    \/ BreakInWhile
    \/ ContinueInFor
    \/ ReturnInFunc
    \/ main

SpecBlock == Init /\ [][NextBlock]_vars

\* what the last line of the script has printed
last_line_out ==
    [p \in 1 .. Cardinality(last_line) |->
        m.out[Len(m.out) - Cardinality(last_line) + p]]

\* what the last line prints if the escape leaves its holder
escaped_out ==
    CASE last.op = "BreakInWhile" -> <<START, BRK, AFTER>>
      [] last.op = "ContinueInFor" -> <<START, AFTER>>
      [] last.op = "ReturnInFunc" -> <<START, render_int(last.arg[2])>>

\* C20: an escape produced inside a bare block leaves the block as it leaves
\* the branch of an `if`: the statements after the block are not executed,
\* a `break` ends the loop, a `continue` ends the iteration and a `return`
\* gives the function its value.
C20_EscapeLeavesBlock ==
    (prog # <<>>
     /\ last.op \in {"BreakInWhile", "ContinueInFor", "ReturnInFunc"})
        => /\ error = <<>>
           /\ last_line_out = escaped_out

(***************************************************************************)
(* The frame of a body.                                                    *)
(***************************************************************************)
BodyKinds == {"block", "if", "else", "while", "for", "call"}
\* how a body ends: at its last statement, with an escape, with an error
BodyEnds == {"end", "escape", "fail"}

\* the frame scripts have at most this many lines
MaxFrameLines == 3

\* x := 1; print(x); and then nothing, an escape, or print(z) with z
\* undefined
BodyStmts(kind, end, l) ==
    <<S_Declare(Var(s_x, l, 40), Lit(1, l, 45)), PrintStmt(Var(s_x, l, 55), l)>>
    \o (CASE end = "end" -> <<>>
          [] end = "fail" -> <<PrintStmt(Var(s_z, l, 65), l)>>
          [] end = "escape" ->
                IF kind \in {"while", "for"} THEN <<S_Continue(<<l, 60>>)>>
                ELSE IF kind = "call"
                    THEN <<S_Return(<<l, 60>>, Lit(0, l, 67))>>
                ELSE <<S_Break(<<l, 60>>)>>)

\* { body }
\* if true { body }
\* if false { } else { body }
\* { i := 0; while i < 2 { i = i + 1; body } }
\* for [_, y] in [1, 2] { body }
\* { fn f() { body } f(); }
BodyOf(kind, stmts, l) ==
    CASE kind = "block" -> S_Block(stmts)
      [] kind = "if" -> IfStmt(E_Bool(TRUE, <<l, 4>>), stmts)
      [] kind = "else" ->
            S_If(<<Branch(E_Bool(FALSE, <<l, 4>>), <<>>)>>, SomeBlock(stmts))
      [] kind = "while" ->
            S_Block(<<S_Declare(Var(s_i, l, 3), Lit(0, l, 8)),
                      S_While(BinOp("Lt", Var(s_i, l, 17), Lit(2, l, 21), l, 19),
                              <<IncStmt(s_i, l, 25)>> \o stmts)>>)
      [] kind = "for" ->
            S_For(PairPattern(s_y, l, 5),
                  Items(<<Lit(1, l, 16), Lit(2, l, 19)>>, l, 15), stmts)
      [] kind = "call" ->
            S_Block(<<S_Func(s_f, <<l, 6>>, <<>>, FALSE, stmts),
                      S_Expr(Call(Var(s_f, l, 80), <<>>, l, 81))>>)

\* print("S"); and a body that declares x
RunBody ==
    \E kind \in BodyKinds, end \in BodyEnds :
        Len(prog) < MaxFrameLines /\ RunLine("RunBody", <<kind, end>>,
            <<PrintStmt(E_Str(START, <<ln, 90>>), ln),
              BodyOf(kind, BodyStmts(kind, end, ln), ln)>>)

\* print(x);
UseAfterBody ==
    Len(prog) < MaxFrameLines /\ Run("UseAfterBody", <<>>,
        PrintStmt(Var(s_x, ln, 7), ln))

\* fn g() { }
DeclareAfterBody ==
    /\ Len(prog) < MaxFrameLines
    /\ count("DeclareAfterBody", <<>>) = 0
    /\ Run("DeclareAfterBody", <<>>, S_Func(s_g, <<ln, 4>>, <<>>, FALSE, <<>>))

NextFrames ==
    \/ RunBody
    \/ UseAfterBody
    \/ DeclareAfterBody
    \/ main

SpecFrames == Init /\ [][NextFrames]_vars

\* the number of times the body of the last line has run to its print(x)
body_runs == Cardinality(last_line \cap printed(render_int(1)))

in_chain(err, cause) == \E i \in 1 .. Len(err) : err[i].e = cause

\* C21: a body runs in a frame of its own: the x it declares is not visible
\* to the code after it (a read fails with Undefined), every iteration of a
\* loop declares x anew without AlreadyInScope, and the enclosing code has
\* the stack it had before, however the body ends.
C21_BodyHasFreshFrame ==
    /\ ~get(m, scopes, s_x).some
    /\ ~in_chain(error, "AlreadyInScope")
    /\ Len(scopes) = 1
    /\ (prog # <<>> /\ last.op = "UseAfterBody")
           => is_error(error, Len(prog), 7, "Undefined", s_x)
    /\ (prog # <<>> /\ last.op = "DeclareAfterBody")
           => /\ error = <<>>
              /\ deref(m, value_of(s_g).v.ref).closure = scopes
    /\ (prog # <<>> /\ last.op = "RunBody")
           => body_runs = IF last.arg[1] \in {"while", "for"}
                             /\ last.arg[2] # "fail"
                          THEN 2 ELSE 1

\* a `for` has run its body twice, each time declaring x, and a read of x
\* after it has failed
C21_Witness ==
    /\ Len(prog) = 2
    /\ prog[1] = [op |-> "RunBody", arg |-> <<"for", "escape">>]
    /\ prog[2].op = "UseAfterBody"
    /\ m.out = <<START, render_int(1), render_int(1)>>
    /\ status = "failed"

(***************************************************************************)
(* Name resolution: get and assign.                                        *)
(***************************************************************************)
\* where the x nearest to the assignment is declared: 0 in no block (only
\* the global frame can hold x), 1 in the block of the assignment, 2 in the
\* block around it
ShadowDepths == 0 .. 2
DeclaredVals == 1 .. 2
AssignedVals == 7 .. 8

\* the name-resolution scripts have at most this many lines
MaxResolveLines == 4

\* x := v;
DeclareGlobalX ==
    \E v \in DeclaredVals :
        /\ Len(prog) < MaxResolveLines
        /\ ~global(s_x).some
        /\ Run("DeclareGlobalX", <<v>>, S_Declare(Var(s_x, ln, 1), Lit(v, ln, 6)))

AssignAndPrint(v, l) ==
    <<S_Assign(Var(s_x, l, 20), Lit(v, l, 24)), PrintStmt(Var(s_x, l, 33), l)>>

\* { x = v; print(x); }
\* { x := 5; x = v; print(x); }
\* { x := 5; { x = v; print(x); } print(x); }
AssignShadowed ==
    \E depth \in ShadowDepths, v \in AssignedVals :
        Len(prog) < MaxResolveLines /\ Run("AssignShadowed", <<depth, v>>,
            S_Block(CASE depth = 0 -> AssignAndPrint(v, ln)
                      [] depth = 1 ->
                            <<S_Declare(Var(s_x, ln, 3), Lit(5, ln, 8))>>
                            \o AssignAndPrint(v, ln)
                      [] depth = 2 ->
                            <<S_Declare(Var(s_x, ln, 3), Lit(5, ln, 8)),
                              S_Block(AssignAndPrint(v, ln)),
                              PrintStmt(Var(s_x, ln, 50), ln)>>))

\* print(x);
PrintGlobalX ==
    Len(prog) < MaxResolveLines /\ Run("PrintGlobalX", <<>>,
        PrintStmt(Var(s_x, ln, 7), ln))

NextResolve ==
    \/ DeclareGlobalX
    \/ AssignShadowed
    \/ PrintGlobalX
    \/ main

SpecResolve == Init /\ [][NextResolve]_vars

\* the step runs a line `op`
runs(op) == prog' # prog /\ prog'[Len(prog')].op = op
ran_arg == prog'[Len(prog')].arg
\* the scope frames of m are the same in m'
frames_unchanged ==
    \A r \in 1 .. Len(m.heap) : m.heap[r].t = "Scope" => m'.heap[r] = m.heap[r]

\* C22: get and assign resolve a name to the innermost frame that holds it.
\* An assignment to an x that an inner frame holds leaves the global frame as
\* it was, and the reads of x that follow give the assigned value; an
\* assignment to the global x changes its value and nothing else of its
\* binding; with no x in any frame the assignment fails with Undefined and
\* no frame changes; a read at top level gives the value of the global x.
C22_InnermostBinding ==
    [][/\ (runs("AssignShadowed") /\ ran_arg[1] > 0)
            => /\ error' = <<>>
               /\ global_frame' = global_frame
               /\ printed_by_step =
                      IF ran_arg[1] = 1 THEN <<render_int(ran_arg[2])>>
                      ELSE <<render_int(ran_arg[2]), render_int(ran_arg[2])>>
       /\ (runs("AssignShadowed") /\ ran_arg[1] = 0 /\ global(s_x).some)
            => /\ error' = <<>>
               /\ printed_by_step = <<render_int(ran_arg[2])>>
               /\ global_frame' =
                      [global_frame EXCEPT ![s_x].v = new_int(ran_arg[2])]
       /\ (runs("AssignShadowed") /\ ran_arg[1] = 0 /\ ~global(s_x).some)
            => /\ is_error(error', Len(prog'), 20, "Undefined", s_x)
               /\ printed_by_step = <<>>
               /\ frames_unchanged
       /\ (runs("PrintGlobalX") /\ global(s_x).some)
            => /\ error' = <<>>
               /\ printed_by_step = <<render_int(value_of(s_x).v.n)>>
               /\ frames_unchanged
      ]_vars

\* an assignment two frames above the global x has left the global x as
\* declared, and a read at top level has printed it
C22_Witness ==
    /\ Len(prog) = 3
    /\ prog[1] = [op |-> "DeclareGlobalX", arg |-> <<1>>]
    /\ prog[2] = [op |-> "AssignShadowed", arg |-> <<2, 7>>]
    /\ prog[3].op = "PrintGlobalX"
    /\ m.out = <<render_int(7), render_int(7), render_int(1)>>
    /\ global_frame[s_x] = [v |-> new_int(1), loc |-> <<1, 1>>]

(***************************************************************************)
(* The order of an assignment: right-hand side, then target.               *)
(***************************************************************************)
TargetKinds == {"index", "range", "prop"}
AssignOps == {"set", "sum"}
RhsKinds == {"ok", "fail"}

\* the assignment scripts have at most this many lines
MaxOrderLines == 4

\* s(n, expr)
Say(n, expr, l, c) ==
    Call(Var(s_s, l, c), <<Lit(n, l, c + 2), expr>>, l, c + 1)

\* xs := [1, 2, 3]; o := {"a": 1}; i := 0; fn b() { i = i + 1; return 9; }
DeclareTargets ==
    /\ Len(prog) = 1
    /\ prog[1].op = "DeclareSay"
    /\ RunLine("DeclareTargets", <<>>,
           <<S_Declare(Var(s_xs, ln, 1),
                       Items(<<Lit(1, ln, 8), Lit(2, ln, 11), Lit(3, ln, 14)>>,
                             ln, 7)),
             S_Declare(Var(s_o, ln, 18),
                       E_Object(<<PropItem_Pair(E_Str(s_a, <<ln, 24>>),
                                                Lit(1, ln, 29))>>,
                                <<ln, 23>>)),
             S_Declare(Var(s_i, ln, 33), Lit(0, ln, 38)),
             S_Func(s_b, <<ln, 44>>, <<>>, FALSE,
                    <<IncStmt(s_i, ln, 50),
                      S_Return(<<ln, 61>>, Lit(9, ln, 68))>>)>>)

targets_declared == Len(prog) >= 2 /\ prog[2].op = "DeclareTargets"

\* s(1, xs)[s(2, 0)]   s(1, xs)[s(2, 0):s(3, 1)]   s(1, o).a
Target(kind, l) ==
    CASE kind = "index" ->
            E_Index(Say(1, Var(s_xs, l, 6), l, 1),
                    Say(2, Lit(0, l, 16), l, 11), <<l, 10>>)
      [] kind = "range" ->
            E_RangeIndex(Say(1, Var(s_xs, l, 6), l, 1),
                         Say(2, Lit(0, l, 16), l, 11),
                         Say(3, Lit(1, l, 24), l, 19), <<l, 10>>)
      [] kind = "prop" -> PropOf(Say(1, Var(s_o, l, 6), l, 1), s_a, l, 9)

\* s(4, 9), s(4, [9]) for a range target, or s(4, 9) + s(5, true)
Rhs(kind, rhs, l) ==
    IF rhs = "fail"
    THEN BinOp("Sum", Say(4, Lit(9, l, 36), l, 31),
               Say(5, E_Bool(TRUE, <<l, 47>>), l, 42), l, 40)
    ELSE IF kind = "range"
        THEN Say(4, Items(<<Lit(9, l, 37)>>, l, 36), l, 31)
    ELSE Say(4, Lit(9, l, 36), l, 31)

AssignStmt(op, lhs, rhs, l) ==
    IF op = "set" THEN S_Assign(lhs, rhs)
    ELSE S_OpAssign(lhs, "Sum", <<l, 28>>, rhs)

\* <target> = <rhs>;   or   <target> += <rhs>;
AssignTo ==
    \E kind \in TargetKinds, op \in AssignOps, rhs \in RhsKinds :
        /\ targets_declared
        /\ Len(prog) < MaxOrderLines
        /\ kind = "range" => op = "set"
        /\ Run("AssignTo", <<kind, op, rhs>>,
               AssignStmt(op, Target(kind, ln), Rhs(kind, rhs, ln), ln))

\* xs[i] = b();   or   xs[i] += b();
AssignAfterEffect ==
    \E op \in AssignOps :
        /\ targets_declared
        /\ Len(prog) < MaxOrderLines
        /\ Run("AssignAfterEffect", <<op>>,
               AssignStmt(op,
                          E_Index(Var(s_xs, ln, 1), Var(s_i, ln, 4), <<ln, 3>>),
                          Call(Var(s_b, ln, 31), <<>>, ln, 32), ln))

NextOrder ==
    \/ DeclareSay
    \/ DeclareTargets
    \/ AssignTo
    \/ AssignAfterEffect
    \/ main

SpecOrder == Init /\ [][NextOrder]_vars

\* the properties of o and the value of i
o_props == props_of(value_of(s_o))
i_val == value_of(s_i).v.n

\* what the sub-expressions of a target print
target_out(kind) ==
    CASE kind = "index" -> <<render_int(1), render_int(2)>>
      [] kind = "range" -> <<render_int(1), render_int(2), render_int(3)>>
      [] kind = "prop" -> <<render_int(1)>>

\* the value an assignment with `op` writes over `old` for the right-hand
\* side 9
written(op, old) == IF op = "set" THEN new_int(9) ELSE new_int(old.v.n + 9)

\* C23: an assignment evaluates its right-hand side before the
\* sub-expressions of its index, range-index or property target: the
\* right-hand side prints first, the target is resolved in the state the
\* right-hand side has left, and if the right-hand side fails no
\* sub-expression of the target is evaluated and nothing is written.
C23_RhsBeforeTarget ==
    [][/\ (runs("AssignTo") /\ ran_arg[3] = "fail")
            => /\ root_cause(error') = "InvalidOpTypes"
               /\ printed_by_step = <<render_int(4), render_int(5)>>
               /\ xs_now' = xs_now
               /\ o_props' = o_props
       /\ (runs("AssignTo") /\ ran_arg[3] = "ok")
            => /\ error' = <<>>
               /\ printed_by_step = <<render_int(4)>> \o target_out(ran_arg[1])
               /\ ran_arg[1] = "prop"
                      => /\ o_props'[s_a] = written(ran_arg[2], o_props[s_a])
                         /\ xs_now' = xs_now
               /\ ran_arg[1] # "prop"
                      => /\ xs_now' = [xs_now EXCEPT
                                            ![1] = written(ran_arg[2], @)]
                         /\ o_props' = o_props
       /\ runs("AssignAfterEffect")
            => /\ i_val' = i_val + 1
               /\ IF i_val + 1 < Len(xs_now)
                  THEN /\ error' = <<>>
                       /\ xs_now' = [xs_now EXCEPT
                                          ![i_val + 2] = written(ran_arg[1], @)]
                  ELSE /\ is_error(error', Len(prog'), 3, "OutOfListBounds",
                                   <<i_val + 1>>)
                       /\ xs_now' = xs_now
      ]_vars

\* `s(1, xs)[s(2, 0)] += s(4, 9)` has printed 4, 1, 2 and written 10, and
\* `xs[i] = b()` has then written the item at the i that b() has set
C23_Witness ==
    /\ Len(prog) = 4
    /\ prog[3] = [op |-> "AssignTo", arg |-> <<"index", "sum", "ok">>]
    /\ prog[4] = [op |-> "AssignAfterEffect", arg |-> <<"set">>]
    /\ m.out = <<render_int(4), render_int(1), render_int(2)>>
    /\ xs_now = <<new_int(10), new_int(9), new_int(3)>>
    /\ status = "running"

(***************************************************************************)
(* The order of an indexing expression.                                    *)
(***************************************************************************)
\* the source of an indexing expression: the list xs, a string, an int
ReadSources == {"list", "str", "int"}
ReadStarts == 0 .. 1
ReadEnds == 1 .. 2
ReadIndices == 0 .. 2

\* the indexing scripts have at most this many lines
MaxReadLines == 4

ReadSource(src, l, c) ==
    CASE src = "list" -> Var(s_xs, l, c)
      [] src = "str" -> E_Str(s_a \o s_b, <<l, c>>)
      [] src = "int" -> Lit(5, l, c)

\* s(1, <src>)[s(2, n)];
EvalIndex ==
    \E src \in ReadSources, n \in ReadIndices :
        /\ targets_declared
        /\ Len(prog) < MaxReadLines
        /\ Run("EvalIndex", <<src, n>>,
               S_Expr(E_Index(Say(1, ReadSource(src, ln, 6), ln, 1),
                              Say(2, Lit(n, ln, 16), ln, 11), <<ln, 10>>)))

\* s(1, <src>)[s(2, a):s(3, b)];
EvalRange ==
    \E src \in ReadSources, a \in ReadStarts, b \in ReadEnds :
        /\ targets_declared
        /\ Len(prog) < MaxReadLines
        /\ Run("EvalRange", <<src, a, b>>,
               S_Expr(E_RangeIndex(Say(1, ReadSource(src, ln, 6), ln, 1),
                                   Say(2, Lit(a, ln, 16), ln, 11),
                                   Say(3, Lit(b, ln, 24), ln, 19), <<ln, 10>>)))

NextRead ==
    \/ DeclareSay
    \/ DeclareTargets
    \/ EvalIndex
    \/ EvalRange
    \/ main

SpecRead == Init /\ [][NextRead]_vars

is_prefix(s, t) == Len(s) <= Len(t) /\ s = SubSeq(t, 1, Len(s))

\* C24: an indexing expression is evaluated from left to right: the source
\* expression prints before the index, and before the start and the end of
\* a range, which print in that order.
C24_SourceBeforeBounds ==
    [][(runs("EvalIndex") \/ runs("EvalRange"))
            => /\ printed_by_step # <<>>
               /\ is_prefix(printed_by_step,
                            <<render_int(1), render_int(2), render_int(3)>>)
      ]_vars

(***************************************************************************)
(* Range-index assignment.                                                 *)
(***************************************************************************)
RangeListLens == 0 .. 3
RangeStarts == 0 .. 4
\* the end of the range; NoEnd for an omitted end
NoEnd == 0 - 1
RangeEnds == {NoEnd} \cup (0 .. 4)
RhsLens == 0 .. 3
RhsTypes == {"list", "str"}

\* the range scripts have at most this many lines
MaxRangeLines == 2

\* xs := [11, 12, ..];   with n items
DeclareRangeList ==
    \E n \in RangeListLens :
        /\ prog = <<>>
        /\ Run("DeclareRangeList", <<n>>,
               S_Declare(Var(s_xs, ln, 1),
                         Items([i \in 1 .. n |-> Lit(10 + i, ln, 4 + 4 * i)],
                               ln, 7)))

\* [21, 22, ..] with k items, or the first k bytes of "abc"
RangeRhs(type, k, l) ==
    IF type = "list"
    THEN Items([i \in 1 .. k |-> Lit(20 + i, l, 24 + 4 * i)], l, 23)
    ELSE E_Str([i \in 1 .. k |-> 96 + i], <<l, 23>>)

\* the items that the right-hand side gives
rhs_values(type, k) ==
    [i \in 1 .. k |->
        IF type = "list" THEN new_int(20 + i) ELSE new_str(<<96 + i>>)]

\* xs[s:e] = <rhs>;   or   xs[s:] = <rhs>;
AssignRange ==
    \E s \in RangeStarts, e \in RangeEnds, type \in RhsTypes, k \in RhsLens :
        /\ prog # <<>>
        /\ Len(prog) < MaxRangeLines
        /\ Run("AssignRange", <<s, e, type, k>>,
               S_Assign(E_RangeIndex(Var(s_xs, ln, 1), Lit(s, ln, 4),
                                     IF e = NoEnd THEN NoExpr ELSE Lit(e, ln, 6),
                                     <<ln, 3>>),
                        RangeRhs(type, k, ln)))

NextRange ==
    \/ DeclareRangeList
    \/ AssignRange
    \/ main

SpecRange == Init /\ [][NextRange]_vars

\* xs with the items s .. e-1 (counted from 0) overwritten by ys
overwritten(xs, s, e, ys) ==
    [i \in 1 .. Len(xs) |-> IF s < i /\ i <= e THEN ys[i - s] ELSE xs[i]]

\* the error of `xs[s:e] = ys` for a list of n items and k items in ys, ""
\* if there is none
range_error(n, s, e, k) ==
    IF s > n THEN "RangeStartOutOfListBounds"
    ELSE IF s >= e THEN "RangeStartNotBeforeEnd"
    ELSE IF e > n THEN "RangeEndOutOfListBounds"
    ELSE IF e - s # k THEN "RangeIndexItemMismatch"
    ELSE ""

\* C25: `xs[s:e] = ys` succeeds only if s <= n, s < e, e <= n and
\* e - s = |ys|, reports the first violation in this order, on success
\* overwrites exactly xs[s..e-1] with ys and on failure leaves xs as it was.
C25_RangeAssign ==
    [][(runs("AssignRange") /\ ran_arg[2] # NoEnd)
        => LET n == Len(xs_now)
               s == ran_arg[1]
               e == ran_arg[2]
               k == ran_arg[4]
               err == range_error(n, s, e, k)
           IN  IF err = ""
               THEN /\ error' = <<>>
                    /\ xs_now' = overwritten(xs_now, s, e,
                                             rhs_values(ran_arg[3], k))
               ELSE /\ is_error(error', Len(prog'), 3, err, error'[Len(error')].info)
                    /\ xs_now' = xs_now
      ]_vars

\* `xs[1:3] = "ab"` has overwritten the last two of three items
C25_Witness ==
    /\ prog = <<[op |-> "DeclareRangeList", arg |-> <<3>>],
                [op |-> "AssignRange", arg |-> <<1, 3, "str", 2>>]>>
    /\ xs_now = <<new_int(11), new_str(<<97>>), new_str(<<98>>)>>
    /\ status = "running"

\* C26: with the end omitted, the end is the length of the list: for a
\* start s < n, `xs[s:] = ys` succeeds exactly when |ys| = n - s, and then
\* overwrites xs[s..n-1].
C26_OmittedEndIsLength ==
    [][(runs("AssignRange") /\ ran_arg[2] = NoEnd /\ ran_arg[1] < Len(xs_now))
        => LET n == Len(xs_now)
               s == ran_arg[1]
               k == ran_arg[4]
           IN  /\ (error' = <<>>) <=> (k = n - s)
               /\ error' = <<>>
                      => xs_now' = overwritten(xs_now, s, n,
                                               rhs_values(ran_arg[3], k))
      ]_vars

(***************************************************************************)
(* Object destructuring: the pair item.                                    *)
(***************************************************************************)
\* the keys of the source object, in the order of its literal
PairKeys == <<s_a, s_b, s_underscore>>
PairNames == {s_x, s_y}

\* the destructuring scripts have at most this many lines
MaxPairLines == 3

\* o := {..};   with the property PairKeys[i]: i for every i in `present`
DeclareSource ==
    \E present \in SUBSET (1 .. Len(PairKeys)) :
        LET idx == SelectSeq(<<1, 2, 3>>, LAMBDA i : i \in present)
        IN  /\ prog = <<>>
            /\ Run("DeclareSource", <<present>>,
                   S_Declare(Var(s_o, ln, 1),
                             E_Object([j \in 1 .. Len(idx) |->
                                          PropItem_Pair(
                                              E_Str(PairKeys[idx[j]], <<ln, 10 * j>>),
                                              Lit(idx[j], ln, 10 * j + 5))],
                                      <<ln, 6>>)))

\* {"k": name} := o;
DestructurePair ==
    \E i \in 1 .. Len(PairKeys), name \in PairNames :
        /\ prog # <<>>
        /\ Len(prog) < MaxPairLines
        /\ name \notin DOMAIN global_frame
        /\ Run("DestructurePair", <<PairKeys[i], name>>,
               S_Declare(E_Object(<<PropItem_Pair(E_Str(PairKeys[i], <<ln, 2>>),
                                                  Var(name, ln, 7))>>, <<ln, 1>>),
                         Var(s_o, ln, 13)))

NextPair ==
    \/ DeclareSource
    \/ DestructurePair
    \/ main

SpecPair == Init /\ [][NextPair]_vars

\* C27: `{"k": name} := o` binds name to the property k of o if o has it, and
\* fails with PropNotFound if not, for every key k, the key "_" included.
C27_PairBindsEveryKey ==
    [][runs("DestructurePair")
        => LET k == ran_arg[1]
               name == ran_arg[2]
           IN  IF k \in DOMAIN o_props
               THEN /\ error' = <<>>
                    /\ name \in DOMAIN global_frame'
                    /\ global_frame'[name].v.v = o_props[k].v
               ELSE /\ error' # <<>>
                    /\ root_cause(error') = "PropNotFound"
      ]_vars

(***************************************************************************)
(* The remainder.                                                          *)
(***************************************************************************)
\* the remainder scripts have at most this many lines
MaxRemLines == 1

\* print(i % j);
Rem ==
    \E i \in Operands, j \in Operands :
        Len(prog) < MaxRemLines /\ Run("Rem", <<i, j>>,
            PrintStmt(BinOp("Mod", Lit(i, ln, 7), Lit(j, ln, 11), ln, 9), ln))

NextRem ==
    \/ Rem
    \/ main

SpecRem == Init /\ [][NextRem]_vars

\* C28: `i % j` ends with the signed remainder or with an error of the
\* evaluator, for all integers i and j; it never aborts the interpreter.
C28_RemNeverAborts ==
    (prog # <<>> /\ last.op = "Rem")
        => /\ status # "aborted"
           /\ error = <<>>
                  => last_out = render_int(trunc_rem(last.arg[1], last.arg[2]))

(***************************************************************************)
(* The symmetry of equality.                                               *)
(***************************************************************************)
\* {"k1": v1, "k2": v2} at line l, column c
Object2(k1, v1, k2, v2, l, c) ==
    E_Object(<<PropItem_Pair(E_Str(k1, <<l, c + 1>>), v1),
               PropItem_Pair(E_Str(k2, <<l, c + 9>>), v2)>>, <<l, c>>)

\* closed expressions, written at line l and column c: null, 7, "a",
\* [1, "a"], [2, 3], ["a", 1], {"a": 1, "b": "a"}, {"b": 2, "c": 1},
\* {"a": 1, "b": 2}
SymShapes == 1 .. 9

SymShape(e, l, c) ==
    CASE e = 1 -> E_Null(<<l, c>>)
      [] e = 2 -> Lit(7, l, c)
      [] e = 3 -> E_Str(s_a, <<l, c>>)
      [] e = 4 -> Items(<<Lit(1, l, c + 1), E_Str(s_a, <<l, c + 4>>)>>, l, c)
      [] e = 5 -> Items(<<Lit(2, l, c + 1), Lit(3, l, c + 4)>>, l, c)
      [] e = 6 -> Items(<<E_Str(s_a, <<l, c + 1>>), Lit(1, l, c + 6)>>, l, c)
      [] e = 7 -> Object2(s_a, Lit(1, l, c + 6), s_b, E_Str(s_a, <<l, c + 14>>), l, c)
      [] e = 8 -> Object2(s_b, Lit(2, l, c + 6), s_c, Lit(1, l, c + 14), l, c)
      [] e = 9 -> Object2(s_a, Lit(1, l, c + 6), s_b, Lit(2, l, c + 14), l, c)

\* print(a == b);
Equal(a, b, l) ==
    PrintStmt(BinOp("Eq", SymShape(a, l, 7), SymShape(b, l, 40), l, 37), l)

\* the symmetry scripts have at most this many lines
MaxSymLines == 1

CompareShapes ==
    \E a \in SymShapes, b \in SymShapes :
        Len(prog) < MaxSymLines
            /\ Run("CompareShapes", <<a, b>>, Equal(a, b, ln))

NextSym ==
    \/ CompareShapes
    \/ main

SpecSym == Init /\ [][NextSym]_vars

\* C29: `a == b` and `b == a` have the same outcome: both print the same
\* boolean, or both fail with InvalidOpTypes.
C29_EqSymmetric ==
    [][runs("CompareShapes")
        => LET swapped == eval_prog(m, scopes,
                              <<Equal(ran_arg[2], ran_arg[1], Len(prog'))>>)
           IN  IF error' = <<>>
               THEN swapped.ok /\ swapped.m.out = m'.out
               ELSE /\ ~swapped.ok
                    /\ root_cause(error') = "InvalidOpTypes"
                    /\ root_cause(swapped.err) = "InvalidOpTypes"
      ]_vars

(***************************************************************************)
(* The pairs a for loop visits.                                            *)
(***************************************************************************)
\* the positions of xs and the keys of o that a loop body writes
VisitPositions == 0 .. 2
VisitKeys == {s_a, s_b, s_c, s_f}

\* the visiting scripts have at most this many lines
MaxVisitLines == 4

\* xs := [1, 2, 3]; o := {"b": 1, "d": 2}; i := 0;
\* fn f(c) { i = i + 1; return c; }
DeclareVisited ==
    /\ prog = <<>>
    /\ RunLine("DeclareVisited", <<>>,
           <<S_Declare(Var(s_xs, ln, 1),
                       Items(<<Lit(1, ln, 8), Lit(2, ln, 11), Lit(3, ln, 14)>>,
                             ln, 7)),
             S_Declare(Var(s_o, ln, 18),
                       E_Object(<<PropItem_Pair(E_Str(s_b, <<ln, 24>>),
                                                Lit(1, ln, 29)),
                                  PropItem_Pair(E_Str(s_d, <<ln, 32>>),
                                                Lit(2, ln, 37))>>,
                                <<ln, 23>>)),
             S_Declare(Var(s_i, ln, 41), Lit(0, ln, 46)),
             S_Func(s_f, <<ln, 52>>, <<Var(s_c, ln, 54)>>, FALSE,
                    <<IncStmt(s_i, ln, 59),
                      S_Return(<<ln, 70>>, Var(s_c, ln, 77))>>)>>)

\* for [k, y] in f(<name>) { print(k); print(y); <name>[<at>] = y + 10; }
VisitAndWrite(name, at, l) ==
    S_For(Items(<<Var(s_k, l, 6), Var(s_y, l, 9)>>, l, 5),
          Call(Var(s_f, l, 15), <<Var(name, l, 17)>>, l, 16),
          <<PrintStmt(Var(s_k, l, 30), l), PrintStmt(Var(s_y, l, 40), l),
            S_Assign(E_Index(Var(name, l, 50), at, <<l, 52>>),
                     BinOp("Sum", Var(s_y, l, 60), Lit(10, l, 64), l, 62))>>)

\* a loop over xs whose body replaces the element at position p
VisitList ==
    \E p \in VisitPositions :
        /\ prog # <<>>
        /\ Len(prog) < MaxVisitLines
        /\ Run("VisitList", <<p>>, VisitAndWrite(s_xs, Lit(p, ln, 53), ln))

\* a loop over o whose body writes the key k, new or not
VisitObject ==
    \E k \in VisitKeys :
        /\ prog # <<>>
        /\ Len(prog) < MaxVisitLines
        /\ Run("VisitObject", <<k>>,
               VisitAndWrite(s_o, E_Str(k, <<ln, 53>>), ln))

NextVisit ==
    \/ DeclareVisited
    \/ VisitList
    \/ VisitObject
    \/ main

SpecVisit == Init /\ [][NextVisit]_vars

\* what a loop prints that visits the pairs `keys[j]`, `vals[j]` in turn
visited_out(keys, vals) ==
    [j \in 1 .. 2 * Len(keys) |->
        IF j % 2 = 1 THEN keys[(j + 1) \div 2]
        ELSE render_int(vals[j \div 2].v.n)]

\* C30: a for loop visits the pairs the iterated list or object had when the
\* iterator expression was evaluated, whatever the body writes to it, and
\* evaluates the iterator expression once.
C30_PairsFixedAtStart ==
    [][(runs("VisitList") \/ runs("VisitObject"))
        => LET keys == IF runs("VisitList")
                       THEN [j \in 1 .. Len(xs_now) |-> render_int(j - 1)]
                       ELSE sorted_keys(DOMAIN o_props)
               vals == IF runs("VisitList") THEN xs_now
                       ELSE [j \in 1 .. Len(keys) |-> o_props[keys[j]]]
           IN  /\ error' = <<>>
               /\ printed_by_step = visited_out(keys, vals)
               /\ i_val' = i_val + 1
      ]_vars

\* a loop over {"b": 1, "d": 2} that inserted the key "a" and then wrote "c"
\* twice has printed b, 1, d, 2, and a second loop a, 12, b, 1, d, 2
C30_Witness ==
    /\ prog = <<[op |-> "DeclareVisited", arg |-> <<>>],
                [op |-> "VisitObject", arg |-> <<s_a>>],
                [op |-> "VisitObject", arg |-> <<s_c>>]>>
    /\ m.out = <<s_b, render_int(1), s_d, render_int(2),
                 s_a, render_int(12), s_b, render_int(1), s_d, render_int(2)>>
    /\ DOMAIN o_props = {s_a, s_b, s_c, s_d}
    /\ o_props[s_c].v.n = 12
    /\ i_val = 2

=============================================================================
